---- MODULE Spec2Model ----
(***************************************************************************)
(* LLM-itM: the call tracker (request_monitor.py) and the request handlers *)
(* of app.py that drive it.                                                *)
(*                                                                         *)
(* Spec     a client of the tracker API calling its operations in any      *)
(*          order with any ids.                                            *)
(* SpecApp  the Flask request handlers (chat_completions / completions)    *)
(*          running concurrently with each other and with the monitor's    *)
(*          clear endpoint.  The monitor's two read endpoints are plain    *)
(*          get_records / get_record calls, which Spec makes.              *)
(* SpecPipe the request phase and the response phase of one call over the  *)
(*          registered units, for every settings snapshot and every choice *)
(*          of units exposing update_settings.                             *)
(* SpecStream  the generator that relays one upstream stream to the caller.*)
(* SpecMem  the payload and settings objects of two concurrent calls, with  *)
(*          object identity, copies and in-place mutation.                 *)
(* SpecUnits  the request and the response method of the units             *)
(*          content_moderation, pirate_mode and response_filtering, each   *)
(*          applied to every payload of a bounded set.                     *)
(* SpecLive the two handlers with the scheduling of their threads: a       *)
(*          handler that can take a step is not left waiting forever.      *)
(***************************************************************************)
EXTENDS Integers, Sequences, FiniteSets, TLC

\* ------------------------------------------------------------------ bounds
MaxCapacity == 2        \* max_records is drawn from 1..MaxCapacity
MaxCalls == 3           \* mutating tracker calls made by the API client
MaxClears == 1          \* clear requests the monitor page makes while handlers run
MaxChunks == 2          \* chunks an upstream stream delivers at most
MaxUnits == 2           \* units registered in module_manager.modules
MaxSaves == 1           \* settings saves made while the two calls run
MaxMessages == 2        \* messages of a request, choices of a response
MaxPieces == 2          \* pieces a message text is made of
MaxDigits == 2          \* characters of an override setting

\* ------------------------------------------------------------- value sets
None == "None"
NoThread == "NoThread"
Client == "client"
Handlers == {"h1", "h2"}
Threads == {Client} \cup Handlers
Ids == {"A", "B", "C"}
Payloads == {"p1"}
Responses == {"r1"}
Errors == {"e1"}
Times == {0, 1}         \* time.time(): an earlier and a later instant
NoLimit == <<>>
Limits == {NoLimit, <<0>>, <<1>>}
EmptyDict == [x \in {} |-> x]

VARIABLES
    max_records,    \* RequestMonitor.max_records
    records,        \* RequestMonitor.records: deque, front first, of record objects
    lock,           \* RequestMonitor.lock: [owner, count] of the RLock
    socketio,       \* RequestMonitor.socketio: None or the sink
    events,         \* what the sink has received through emit('monitor_update', message)
    now,            \* time.time()
    nextOid,        \* identity of the next RequestRecord object constructed
    ret,            \* per thread: the tracker operation it is inside and its outcome
    calls,          \* mutating tracker calls the API client has made
    acc,            \* the last access to the store: by whom, and whether under the lock
    hpc,            \* per handler: where it is in chat_completions / completions
    hloc,           \* per handler: its local variables
    reply,          \* per handler: what the caller has received
    iterDirty,      \* per handler: the deque changed under its running iterator
    clears,         \* clear requests the monitor page has made
    pipe,           \* one call's run through the units: settings, payloads, position
    gen,            \* one call's generate(): the upstream stream and what was relayed
    mem,            \* the objects of two calls and of the settings provider, by identity
    unit            \* one call of one method of a unit of src/modules: input and result

vars == <<unit, gen, mem, pipe, max_records, records, lock, socketio, events, now, nextOid, ret, calls, acc,
          hpc, hloc, reply, iterDirty, clears>>

\* ---------------------------------------------------------- RequestRecord
\* dataclass RequestRecord; oid is the identity of the Python object
RequestRecord(oid, id, timestamp, ip_address, method, endpoint, original_request, processed_request) ==
    [oid |-> oid, id |-> id, timestamp |-> timestamp, ip_address |-> ip_address,
     method |-> method, endpoint |-> endpoint,
     original_request |-> original_request, processed_request |-> processed_request,
     original_response |-> None, processed_response |-> None,
     duration_ms |-> <<>>, error |-> None, status |-> "pending"]

\* datetime.fromtimestamp(ts).strftime(...)
strftime(ts) == <<"datetime", ts>>

to_dict(r) ==
    [id |-> r.id, timestamp |-> r.timestamp, datetime |-> strftime(r.timestamp),
     ip_address |-> r.ip_address, method |-> r.method, endpoint |-> r.endpoint,
     original_request |-> r.original_request, processed_request |-> r.processed_request,
     original_response |-> r.original_response, processed_response |-> r.processed_response,
     duration_ms |-> r.duration_ms, error |-> r.error, status |-> r.status]

\* copy.deepcopy: a new object with an equal value
deepcopy(data) == data

_sanitize_data(data) == IF data = None THEN data ELSE deepcopy(data)

\* mutant: the record is appended at the right end
append_right(d, x, maxlen) ==
    IF maxlen = 0 THEN d
    ELSE IF Len(d) = maxlen THEN SubSeq(d, 2, maxlen) \o <<x>>
    ELSE d \o <<x>>

\* mutant: a full deque drops its left end, the newest record
appendleft_drop_newest(d, x, maxlen) ==
    IF maxlen = 0 THEN d
    ELSE IF Len(d) = maxlen THEN <<x>> \o SubSeq(d, 2, maxlen)
    ELSE <<x>> \o d

\* mutant: the store is rebuilt from the new record alone (a lost update)
appendleft_overwrite(d, x, maxlen) == IF maxlen = 0 THEN d ELSE <<x>>

\* deque(maxlen=n).appendleft(x): a full deque drops its right end
appendleft(d, x, maxlen) ==
    IF maxlen = 0 THEN d
    ELSE IF Len(d) = maxlen THEN <<x>> \o SubSeq(d, 1, maxlen - 1)
    ELSE <<x>> \o d

\* mutant: the loop variable is returned after the loop, the last record scanned
_find_record_falls_through(request_id) ==
    IF \E i \in 1..Len(records) : records[i].id = request_id
    THEN CHOOSE i \in 1..Len(records) :
            /\ records[i].id = request_id
            /\ \A j \in 1..(i - 1) : records[j].id # request_id
    ELSE Len(records)

\* index of the first record with this id, 0 for None
_find_record(request_id) ==
    IF \E i \in 1..Len(records) : records[i].id = request_id
    THEN CHOOSE i \in 1..Len(records) :
            /\ records[i].id = request_id
            /\ \A j \in 1..(i - 1) : records[j].id # request_id
    ELSE 0

\* mutant: the two instants are subtracted the other way round
duration_reversed(start_time) == <<(start_time - now) * 1000>>

\* (time.time() - start_time) * 1000
duration(start_time) == <<(now - start_time) * 1000>>

\* ------------------------------------------------------------------ lock
Free(t) == lock.owner \in {NoThread, t}
Acquire(t) == [owner |-> t, count |-> lock.count + 1]
\* mutant: leaving the block does not give the lock back
Release_never(t) == lock

\* mutant: an exception leaving the block keeps the lock
Release_unless_raised(t) ==
    IF ret[t].outcome = "raised" THEN lock
    ELSE IF lock.count = 1 THEN [owner |-> NoThread, count |-> 0]
    ELSE [lock EXCEPT !.count = @ - 1]

Release(t) == IF lock.count = 1 THEN [owner |-> NoThread, count |-> 0]
              ELSE [lock EXCEPT !.count = @ - 1]
IdleRet == [op |-> "idle", outcome |-> "none", value |-> None]
Idle(t) == ret[t].op = "idle"
Locked(t) == [by |-> t, held |-> TRUE]

\* ------------------------------------------------------------- the sink
\* mutant: the sink gets the event ahead of the ones it was sent before
_notify_observers_reorders(event_type, data, fails) ==
    IF socketio # None /\ ~fails
    THEN events' = <<[type |-> event_type, data |-> data, timestamp |-> now]>> \o events
    ELSE events' = events

\* _notify_observers: emits when a sink is set; emit may raise (fails)
_notify_observers(event_type, data, fails) ==
    IF socketio # None /\ ~fails
    THEN events' = Append(events, [type |-> event_type, data |-> data, timestamp |-> now])
    ELSE events' = events

Raised(fails) == socketio # None /\ fails
Outcome(op, fails, value) ==
    [op |-> op, outcome |-> IF Raised(fails) THEN "raised" ELSE "returned", value |-> value]

\* a deque iterator raises RuntimeError at its next step once the deque was
\* mutated (appendleft, clear of a non-empty deque) after it was created
Mutated(changed) == [h \in Handlers |-> iterDirty[h] \/ (changed /\ hpc[h] = "scan")]

\* ------------------------------------------------------- tracker operations
\* Each operation is the body of its `with self.lock:` block; Return leaves it.
start_request(t, request_id, ip_address, method, endpoint, original_request, initial_processed_request, fails) ==
    /\ Idle(t) /\ Free(t)
    /\ LET record == RequestRecord(nextOid, request_id, now, ip_address, method, endpoint,
                                   _sanitize_data(deepcopy(original_request)),
                                   _sanitize_data(deepcopy(initial_processed_request)))
       IN /\ records' = appendleft(records, record, max_records)
          /\ _notify_observers("request_started", to_dict(record), fails)
    /\ iterDirty' = Mutated(max_records # 0)
    /\ nextOid' = nextOid + 1
    /\ lock' = Acquire(t)
    /\ acc' = Locked(t)
    /\ ret' = [ret EXCEPT ![t] = Outcome("start_request", fails, request_id)]

complete_request(t, request_id, original_response, processed_response, start_time, fails) ==
    /\ Idle(t) /\ Free(t)
    /\ LET i == _find_record(request_id)
       IN IF i # 0
          THEN /\ records' = [records EXCEPT ![i] =
                     [@ EXCEPT !.original_response = _sanitize_data(deepcopy(original_response)),
                               !.processed_response = _sanitize_data(deepcopy(processed_response)),
                               !.duration_ms = duration(start_time),
                               !.status = "completed"]]
               /\ _notify_observers("request_completed", to_dict(records'[i]), fails)
               /\ ret' = [ret EXCEPT ![t] = Outcome("complete_request", fails, request_id)
                                               @@ [start_time |-> start_time]]
          ELSE /\ UNCHANGED <<records, events>>
               /\ ret' = [ret EXCEPT ![t] = Outcome("complete_request", FALSE, request_id)]
    /\ lock' = Acquire(t)
    /\ acc' = Locked(t)
    /\ UNCHANGED <<nextOid, iterDirty>>

\* mutant: the failure is recorded without its duration
error_request_no_duration(t, request_id, error, start_time, fails) ==
    /\ Idle(t) /\ Free(t)
    /\ LET i == _find_record(request_id)
       IN IF i # 0
          THEN /\ records' = [records EXCEPT ![i] =
                     [@ EXCEPT !.error = error,
                               !.status = "error"]]
               /\ _notify_observers("request_error", to_dict(records'[i]), fails)
               /\ ret' = [ret EXCEPT ![t] = Outcome("error_request", fails, request_id)]
          ELSE /\ UNCHANGED <<records, events>>
               /\ ret' = [ret EXCEPT ![t] = Outcome("error_request", FALSE, request_id)]
    /\ lock' = Acquire(t)
    /\ acc' = Locked(t)
    /\ UNCHANGED <<nextOid, iterDirty>>

error_request(t, request_id, error, start_time, fails) ==
    /\ Idle(t) /\ Free(t)
    /\ LET i == _find_record(request_id)
       IN IF i # 0
          THEN /\ records' = [records EXCEPT ![i] =
                     [@ EXCEPT !.error = error,
                               !.duration_ms = duration(start_time),
                               !.status = "error"]]
               /\ _notify_observers("request_error", to_dict(records'[i]), fails)
               /\ ret' = [ret EXCEPT ![t] = Outcome("error_request", fails, request_id)]
          ELSE /\ UNCHANGED <<records, events>>
               /\ ret' = [ret EXCEPT ![t] = Outcome("error_request", FALSE, request_id)]
    /\ lock' = Acquire(t)
    /\ acc' = Locked(t)
    /\ UNCHANGED <<nextOid, iterDirty>>

\* records[:limit] when limit is truthy, else all
Truncate(recs, limit) ==
    IF limit # NoLimit /\ limit[1] # 0
    THEN SubSeq(recs, 1, IF limit[1] < Len(recs) THEN limit[1] ELSE Len(recs))
    ELSE recs

get_records(t, limit) ==
    /\ Idle(t) /\ Free(t)
    /\ LET recs == Truncate(records, limit)
       IN ret' = [ret EXCEPT ![t] =
                    [op |-> "get_records", outcome |-> "returned",
                     value |-> <<limit, [k \in 1..Len(recs) |-> to_dict(recs[k])]>>]]
    /\ lock' = Acquire(t)
    /\ acc' = Locked(t)
    /\ UNCHANGED <<records, events, nextOid, iterDirty>>

get_record(t, request_id) ==
    /\ Idle(t) /\ Free(t)
    /\ LET i == _find_record(request_id)
       IN ret' = [ret EXCEPT ![t] =
                    [op |-> "get_record", outcome |-> "returned",
                     value |-> IF i # 0 THEN <<request_id, to_dict(records[i])>>
                               ELSE <<request_id>>]]
    /\ lock' = Acquire(t)
    /\ acc' = Locked(t)
    /\ UNCHANGED <<records, events, nextOid, iterDirty>>

Pending(r) == r.status = "pending"

\* mutant: the records of calls still in flight survive the clear
clear_records_keeps_pending(t, fails) ==
    /\ Idle(t) /\ Free(t)
    /\ records' = SelectSeq(records, Pending)
    /\ _notify_observers("records_cleared", EmptyDict, fails)
    /\ iterDirty' = Mutated(records # <<>>)
    /\ ret' = [ret EXCEPT ![t] = Outcome("clear_records", fails, None)]
    /\ lock' = Acquire(t)
    /\ acc' = Locked(t)
    /\ UNCHANGED nextOid

clear_records(t, fails) ==
    /\ Idle(t) /\ Free(t)
    /\ records' = <<>>
    /\ _notify_observers("records_cleared", EmptyDict, fails)
    /\ iterDirty' = Mutated(records # <<>>)
    /\ ret' = [ret EXCEPT ![t] = Outcome("clear_records", fails, None)]
    /\ lock' = Acquire(t)
    /\ acc' = Locked(t)
    /\ UNCHANGED nextOid

\* leaving the `with self.lock:` block, normally or by the exception
Exit(t) ==
    /\ ~Idle(t)
    /\ lock.owner = t
    /\ lock' = Release(t)

\* ------------------------------------------------------------ API client
Budget == calls < MaxCalls
Spend == calls' = calls + 1
AppVars == <<hpc, hloc, reply, clears>>
Frame == UNCHANGED <<unit, gen, mem, pipe, max_records, socketio, now, hpc, hloc, reply, clears>>
SinkMay(fails) == socketio = None => ~fails

ApiStart ==
    /\ Budget /\ Spend /\ Frame
    /\ \E id \in Ids, p \in Payloads, fails \in BOOLEAN :
         /\ SinkMay(fails)
         /\ start_request(Client, id, "ip", "POST", "/api", p, p, fails)

ApiComplete ==
    /\ Budget /\ Spend /\ Frame
    /\ \E id \in Ids, r \in Responses, st \in Times, fails \in BOOLEAN :
         /\ SinkMay(fails)
         /\ complete_request(Client, id, r, r, st, fails)

ApiError ==
    /\ Budget /\ Spend /\ Frame
    /\ \E id \in Ids, e \in Errors, st \in Times, fails \in BOOLEAN :
         /\ SinkMay(fails)
         /\ error_request(Client, id, e, st, fails)

ApiClear ==
    /\ Budget /\ Spend /\ Frame
    /\ \E fails \in BOOLEAN :
         /\ SinkMay(fails)
         /\ clear_records(Client, fails)

ApiGetRecords ==
    /\ Frame /\ UNCHANGED calls
    /\ \E limit \in Limits : get_records(Client, limit)

ApiGetRecord ==
    /\ Frame /\ UNCHANGED calls
    /\ \E id \in Ids : get_record(Client, id)

\* the client's call returns (or raises) and the lock is released
ApiReturn ==
    /\ Exit(Client)
    /\ ret' = [ret EXCEPT ![Client] = IdleRet]
    /\ UNCHANGED <<unit, gen, mem, pipe, max_records, records, socketio, events, now, nextOid, calls, acc,
                   hpc, hloc, reply, iterDirty, clears>>

\* set_socketio(socketio)
set_socketio ==
    /\ Idle(Client)
    /\ socketio = None
    /\ socketio' = "socketio"
    /\ UNCHANGED <<unit, gen, mem, pipe, max_records, records, lock, events, now, nextOid, ret, calls, acc,
                   hpc, hloc, reply, iterDirty, clears>>

\* time passes
Tick ==
    /\ now + 1 \in Times
    /\ lock.owner = NoThread
    /\ now' = now + 1
    /\ UNCHANGED <<unit, gen, mem, pipe, max_records, records, lock, socketio, events, nextOid, ret, calls, acc,
                   hpc, hloc, reply, iterDirty, clears>>

\* ------------------------------------------------------- request handlers
\* trail is not a variable of the code: the steps the call has taken, in order
NoLocals == [start_time |-> 0, stream |-> FALSE, request_data |-> None,
             original_response |-> None, response_data |-> None, error |-> None,
             trail |-> <<>>]
\* chunks: the lines of a streamed body the caller has received
NoReply == [code |-> 0, body |-> None, chunks |-> <<>>]

\* request_id = str(uuid.uuid4()): fresh for every call
RequestId(h) == h
Endpoint(h) == IF h = "h1" THEN "/v1/chat/completions" ELSE "/v1/completions"
Requests == {"q1"}
\* what the units of the request / response phase make of a payload
Transformed(payload) ==
    IF payload = "q1" THEN "q1 processed"
    ELSE IF payload = "r1" THEN "r1 processed" ELSE payload

HFrame == UNCHANGED <<unit, gen, mem, pipe, max_records, socketio, now, calls, clears>>
Shared == <<unit, gen, mem, pipe, max_records, records, lock, socketio, events, nextOid, ret, calls, acc,
            iterDirty, clears>>
Local == UNCHANGED <<Shared, now>>
Goto(h, label) == hpc' = [hpc EXCEPT ![h] = label]
Raise(h, e) ==
    /\ hpc' = [hpc EXCEPT ![h] = "except"]
    /\ hloc' = [hloc EXCEPT ![h].error = e]
Trail(h, step) == Append(hloc[h].trail, step)
\* the step of the call that raises e
Throw(h, e, step) ==
    /\ hpc' = [hpc EXCEPT ![h] = "except"]
    /\ hloc' = [hloc EXCEPT ![h].error = e, ![h].trail = Trail(h, step)]

\* app.py 201-213: start_time, request_id, settings, the two copies of request.json
HBegin(h) ==
    /\ hpc[h] = "idle"
    /\ \E q \in Requests :
         hloc' = [hloc EXCEPT ![h] = [NoLocals EXCEPT !.start_time = now, !.request_data = q]]
    /\ Goto(h, "start")
    /\ UNCHANGED reply
    /\ Local

\* app.py 215-218: request_monitor.start_request(...)
HStart(h) ==
    /\ hpc[h] = "start"
    /\ \E fails \in BOOLEAN :
         /\ SinkMay(fails)
         /\ start_request(h, RequestId(h), "ip", "POST", Endpoint(h),
                          hloc[h].request_data, hloc[h].request_data, fails)
    /\ Goto(h, "start_return")
    /\ hloc' = [hloc EXCEPT ![h].trail = Trail(h, "start")]
    /\ UNCHANGED reply
    /\ HFrame

\* the tracker call of a handler returns or raises; an exception enters `except`
HReturn(h, from, to) ==
    /\ hpc[h] = from
    /\ Exit(h)
    /\ IF ret[h].outcome = "raised"
       THEN Raise(h, "emit failed")
       ELSE Goto(h, to) /\ UNCHANGED hloc
    /\ ret' = [ret EXCEPT ![h] = IdleRet]
    /\ UNCHANGED <<unit, gen, mem, pipe, max_records, records, socketio, events, now, nextOid, calls, acc,
                   reply, iterDirty, clears>>

\* mutant: the handler goes from start_request straight to the update
HStartReturn_skips_units(h) == HReturn(h, "start_return", "find")

HStartReturn(h) == HReturn(h, "start_return", "request_phase")

\* what the units that ran before the one that raised have made of a payload
\* (the payload itself when the first unit raises: nothing reads it afterwards)
Partial(payload) == IF payload = "q1" THEN "q1 partial" ELSE payload

\* mutant: the record gets the working payload although a unit raised
HRequestPhase_writes_partial(h) ==
    /\ hpc[h] = "request_phase"
    /\ \/ /\ hloc' = [hloc EXCEPT ![h].request_data = Transformed(@),
                                   ![h].trail = Trail(h, "request_phase")]
          /\ Goto(h, "find")
          /\ UNCHANGED records
       \/ /\ hloc' = [hloc EXCEPT ![h].request_data = Partial(@),
                                   ![h].error = "unit raised",
                                   ![h].trail = Trail(h, "request_phase")]
          /\ records' = [i \in 1..Len(records) |->
                                IF records[i].id = RequestId(h)
                                THEN [records[i] EXCEPT !.processed_request = Partial(@)]
                                ELSE records[i]]
          /\ Goto(h, "except")
    /\ UNCHANGED reply
    /\ UNCHANGED <<unit, gen, mem, pipe, max_records, lock, socketio, events, nextOid, ret, calls,
                   acc, iterDirty, clears, now>>

\* app.py 220-226: the request phase over module_manager.modules; the units
\* change request_data in place, so when one raises the payload is as the
\* units before it left it
HRequestPhase(h) ==
    /\ hpc[h] = "request_phase"
    /\ \/ /\ hloc' = [hloc EXCEPT ![h].request_data = Transformed(@),
                                   ![h].trail = Trail(h, "request_phase")]
          /\ Goto(h, "find")
       \/ /\ hloc' = [hloc EXCEPT ![h].request_data = Partial(@),
                                   ![h].error = "unit raised",
                                   ![h].trail = Trail(h, "request_phase")]
          /\ Goto(h, "except")
    /\ UNCHANGED reply
    /\ Local

\* app.py 228: request_monitor._find_record(request_id) starts iterating the deque,
\* without the lock
HFind(h) ==
    /\ hpc[h] = "find"
    /\ Goto(h, "scan")
    /\ hloc' = [hloc EXCEPT ![h].trail = Trail(h, "update")]
    /\ iterDirty' = [iterDirty EXCEPT ![h] = FALSE]
    /\ acc' = [by |-> h, held |-> lock.owner = h]
    /\ UNCHANGED <<unit, gen, mem, pipe, max_records, records, lock, socketio, events, now, nextOid, ret, calls,
                   reply, clears>>

\* app.py 228-230: the scan ends and the record found gets the processed request
HUpdate(h) ==
    /\ hpc[h] = "scan"
    /\ IF iterDirty[h]
       THEN /\ Raise(h, "deque mutated during iteration")
            /\ UNCHANGED records
       ELSE /\ LET i == _find_record(RequestId(h))
               IN records' = IF i # 0
                             THEN [records EXCEPT ![i].processed_request =
                                       _sanitize_data(deepcopy(hloc[h].request_data))]
                             ELSE records
            /\ Goto(h, "upstream")
            /\ UNCHANGED hloc
    /\ iterDirty' = [iterDirty EXCEPT ![h] = FALSE]
    /\ acc' = [by |-> h, held |-> lock.owner = h]
    /\ UNCHANGED <<unit, gen, mem, pipe, max_records, lock, socketio, events, now, nextOid, ret, calls, reply, clears>>

\* app.py 234-246: client.chat.completions.create(**request_data), the network
\* call during which time passes; request_data.get('stream') picks the branch
\* mutant: a failed create call is made again
HUpstream_retries(h) ==
    /\ hpc[h] = "upstream"
    /\ \E later \in Times : later >= now /\ now' = later
    /\ \/ \E stream \in BOOLEAN :
            IF stream
            THEN /\ hloc' = [hloc EXCEPT ![h].stream = TRUE,
                                          ![h].trail = Trail(h, "upstream")]
                 /\ Goto(h, "streaming")
            ELSE /\ \E r \in Responses :
                      hloc' = [hloc EXCEPT ![h].original_response = r, ![h].response_data = r,
                                           ![h].trail = Trail(h, "upstream")]
                 /\ Goto(h, "response_phase")
       \/ /\ hloc' = [hloc EXCEPT ![h].trail = Trail(h, "upstream")]
          /\ UNCHANGED hpc
    /\ UNCHANGED reply
    /\ UNCHANGED Shared

HUpstream(h) ==
    /\ hpc[h] = "upstream"
    /\ \E later \in Times : later >= now /\ now' = later
    /\ \/ \E stream \in BOOLEAN :
            IF stream
            THEN /\ hloc' = [hloc EXCEPT ![h].stream = TRUE,
                                          ![h].trail = Trail(h, "upstream")]
                 /\ Goto(h, "streaming")
            ELSE /\ \E r \in Responses :
                      hloc' = [hloc EXCEPT ![h].original_response = r, ![h].response_data = r,
                                           ![h].trail = Trail(h, "upstream")]
                 /\ Goto(h, "response_phase")
       \/ Throw(h, "upstream failed", "upstream")
    /\ UNCHANGED reply
    /\ UNCHANGED Shared

\* app.py 240-244: return app.response_class(generate(), ...);
\* the handler has returned and the server iterates the generator
HStream(h) ==
    /\ hpc[h] = "streaming"
    /\ reply' = [reply EXCEPT ![h].code = 200, ![h].body = "stream"]
    /\ Goto(h, "relay")
    /\ hloc' = [hloc EXCEPT ![h].trail = Trail(h, "reply")]
    /\ Local

\* f"data: {chunk.model_dump_json()}\n\n"
Line(data) == <<"data: ", data, "\n\n">>
\* the serialization of the k-th chunk of a stream
ChunkJson(k) == <<"chunk 1", "chunk 2", "chunk 3", "chunk 4">>[k]

\* app.py 237-238: for chunk in stream: yield the chunk's line
HChunk(h) ==
    /\ hpc[h] = "relay"
    /\ Len(reply[h].chunks) < MaxChunks
    /\ reply' = [reply EXCEPT ![h].chunks = Append(@, Line(ChunkJson(Len(@) + 1)))]
    /\ UNCHANGED <<hpc, hloc>>
    /\ Local

\* mutant: the end of the stream goes on to complete_request
HStreamEnd_completes(h) ==
    /\ hpc[h] = "relay"
    /\ reply' = [reply EXCEPT ![h].chunks = Append(@, Line("[DONE]"))]
    /\ Goto(h, "complete")
    /\ UNCHANGED hloc
    /\ Local

\* app.py 239: the stream is exhausted: yield "data: [DONE]\n\n"
HStreamEnd(h) ==
    /\ hpc[h] = "relay"
    /\ reply' = [reply EXCEPT ![h].chunks = Append(@, Line("[DONE]"))]
    /\ Goto(h, "stream_ended")
    /\ UNCHANGED hloc
    /\ Local

\* app.py 237: the iteration of the upstream stream raises inside the generator,
\* after the handler's try block was left
HStreamRaise(h) ==
    /\ hpc[h] = "relay"
    /\ Goto(h, "stream_raised")
    /\ UNCHANGED <<hloc, reply>>
    /\ Local

\* the caller disconnects: the server closes the generator (GeneratorExit at
\* the yield of app.py 238)
HDisconnect(h) ==
    /\ hpc[h] = "relay"
    /\ Goto(h, "stream_closed")
    /\ UNCHANGED <<hloc, reply>>
    /\ Local

\* app.py 250-256: the response phase over module_manager.modules
HResponsePhase(h) ==
    /\ hpc[h] = "response_phase"
    /\ \/ /\ hloc' = [hloc EXCEPT ![h].response_data = Transformed(@),
                                   ![h].trail = Trail(h, "response_phase")]
          /\ Goto(h, "complete")
       \/ Throw(h, "unit raised", "response_phase")
    /\ UNCHANGED reply
    /\ Local

\* app.py 258-260: request_monitor.complete_request(...)
HComplete(h) ==
    /\ hpc[h] = "complete"
    /\ \E fails \in BOOLEAN :
         /\ SinkMay(fails)
         /\ complete_request(h, RequestId(h), hloc[h].original_response,
                             hloc[h].response_data, hloc[h].start_time, fails)
    /\ Goto(h, "complete_return")
    /\ hloc' = [hloc EXCEPT ![h].trail = Trail(h, "complete")]
    /\ UNCHANGED reply
    /\ HFrame

HCompleteReturn(h) == HReturn(h, "complete_return", "reply")

\* app.py 262: return jsonify(response_data), 200
HReply(h) ==
    /\ hpc[h] = "reply"
    /\ reply' = [reply EXCEPT ![h].code = 200, ![h].body = hloc[h].response_data]
    /\ Goto(h, "done")
    /\ hloc' = [hloc EXCEPT ![h].trail = Trail(h, "reply")]
    /\ Local

\* mutant: the except block answers without telling the tracker
HExcept_swallows(h) ==
    /\ hpc[h] = "except"
    /\ reply' = [reply EXCEPT ![h].code = 500, ![h].body = hloc[h].error]
    /\ Goto(h, "done")
    /\ hloc' = [hloc EXCEPT ![h].trail = Trail(h, "reply")]
    /\ Local

\* app.py 264-265: except Exception as e: request_monitor.error_request(...)
HExcept(h) ==
    /\ hpc[h] = "except"
    /\ \E fails \in BOOLEAN :
         /\ SinkMay(fails)
         /\ error_request(h, RequestId(h), hloc[h].error, hloc[h].start_time, fails)
    /\ Goto(h, "except_return")
    /\ hloc' = [hloc EXCEPT ![h].trail = Trail(h, "fail")]
    /\ UNCHANGED reply
    /\ HFrame

\* app.py 266-267: return jsonify({'error': str(e)}), 500; an exception raised
\* inside the except block leaves the handler unhandled
HExceptReturn(h) ==
    /\ hpc[h] = "except_return"
    /\ Exit(h)
    /\ reply' = [reply EXCEPT ![h].code = 500,
                                ![h].body = IF ret[h].outcome = "raised" THEN "unhandled"
                                            ELSE hloc[h].error]
    /\ Goto(h, "done")
    /\ hloc' = [hloc EXCEPT ![h].trail = Trail(h, "reply")]
    /\ ret' = [ret EXCEPT ![h] = IdleRet]
    /\ UNCHANGED <<unit, gen, mem, pipe, max_records, records, socketio, events, now, nextOid, calls, acc,
                   iterDirty, clears>>

\* ------------------------------------------------------- monitor endpoint
MFrame == UNCHANGED <<unit, gen, mem, pipe, max_records, socketio, now, calls, hpc, hloc, reply>>

\* app.py 167-171: POST /api/monitor/clear
clear_monitor_records ==
    /\ clears < MaxClears
    /\ clears' = clears + 1
    /\ MFrame
    /\ \E fails \in BOOLEAN :
         /\ SinkMay(fails)
         /\ clear_records(Client, fails)


\* ------------------------------------------------------------ the pipeline
\* A unit is a BaseModule instance: its name and, when the class defines it,
\* the partial map its update_settings returns (<<>>: no such attribute).
\* A payload is the sequence of the marks the units have left on it.
Values == {"True", "False", None}
\* bool(v)
Truthy(v) == v \notin {"False", None}
\* BaseModule.__init__: the name of the k-th registered unit
Name(k) == <<"unit", k>>
\* f"use_{self.name}"
get_setting_name(name) == <<"use_", name>>
SettingNames == {get_setting_name(Name(k)) : k \in 1..MaxUnits}
Dicts(keys, values) == UNION {[ks -> values] : ks \in SUBSET keys}
\* what config_manager.get_all_settings() may return for the units' keys
Settings == Dicts(SettingNames, Values)
\* ModuleManager.get_module_settings: every registered unit on
get_module_settings == [key \in SettingNames |-> "True"]
OneKey(key, v) == [k \in {key} |-> v]
Updates ==
    {<<>>, <<EmptyDict>>} \cup {<<OneKey(key, v)>> : key \in SettingNames, v \in {"True", "False"}}
Modules ==
    {[k \in 1..MaxUnits |-> [name |-> Name(k), update_settings |-> f[k]]] :
        f \in [1..MaxUnits -> Updates]}

\* dict.get(key, default)
Get(d, key, default) == IF key \in DOMAIN d THEN d[key] ELSE default

\* mutant: a unit whose key is absent is off
is_enabled_fail_closed(module, settings) ==
    Get(settings, get_setting_name(module.name), "False")

\* BaseModule.is_enabled: settings.get(f"use_{self.name}", True)
is_enabled(module, settings) ==
    Get(settings, get_setting_name(module.name), "True")

\* mutant: keys the snapshot already has keep their value
Update_keeps_old(d, other) ==
    [k \in DOMAIN d \cup DOMAIN other |-> IF k \in DOMAIN d THEN d[k] ELSE other[k]]

\* dict.update(other)
Update(d, other) ==
    [k \in DOMAIN d \cup DOMAIN other |-> IF k \in DOMAIN other THEN other[k] ELSE d[k]]

\* mutant: the unit instance remembers that it has served a call before
_process_request_remembers(module, request_data) ==
    Append(request_data, <<module.name, IF pipe.earlier = <<>> THEN "request" ELSE "again">>)

_process_request(module, request_data) == Append(request_data, <<module.name, "request">>)
_process_response(module, response_data) == Append(response_data, <<module.name, "response">>)

\* BaseModule.process_request / process_response
process_request(module, request_data, settings) ==
    IF ~Truthy(is_enabled(module, settings)) THEN request_data
    ELSE _process_request(module, request_data)
process_response(module, response_data, settings) ==
    IF ~Truthy(is_enabled(module, settings)) THEN response_data
    ELSE _process_response(module, response_data)

\* if hasattr(module, 'update_settings'): updated = ...; if updated: settings.update(updated)
update_hook(module, settings) ==
    IF module.update_settings # <<>> /\ module.update_settings[1] # EmptyDict
    THEN Update(settings, module.update_settings[1])
    ELSE settings

\* mutant: the unit is tested against the settings the call began with
enabled_at_start(module) == Truthy(is_enabled(module, pipe.provider))

\* `if module.is_enabled(settings):` on the call's settings as they are now
enabled_now(module) == Truthy(is_enabled(module, pipe.settings))

\* mutant: update_settings is called for a unit that is off as well
settings_after_always(module) == update_hook(module, pipe.settings)

\* the call's settings after the loop body for this unit
settings_after(module) ==
    IF enabled_now(module) THEN update_hook(module, pipe.settings) ELSE pipe.settings

NoPipe == [phase |-> "none"]

Visit(phase, module, data, out, after, outcome) ==
    [phase |-> phase, i |-> pipe.i, seen |-> pipe.settings, in |-> data, out |-> out,
     after |-> after, outcome |-> outcome]

\* one iteration of `for module in module_manager.modules:`; outcome is what
\* happened to the unit: applied, skipped, or raised inside its process method
LoopBody(phase, data, out) ==
    LET module == pipe.modules[pipe.i]
    IN \/ /\ enabled_now(module)
          /\ pipe' = [pipe EXCEPT
                !.data = out,
                !.settings = settings_after(module),
                !.i = @ + 1,
                !.visits = Append(@, Visit(phase, module, data, out,
                                           settings_after(module), "applied"))]
       \/ /\ enabled_now(module)
          /\ pipe' = [pipe EXCEPT
                !.phase = "failed",
                !.visits = Append(@, Visit(phase, module, data, data, pipe.settings, "raised"))]
       \/ /\ ~enabled_now(module)
          /\ pipe' = [pipe EXCEPT
                !.settings = settings_after(module),
                !.i = @ + 1,
                !.visits = Append(@, Visit(phase, module, data, data,
                                           settings_after(module), "skipped"))]

TrackerVars == <<max_records, records, lock, socketio, events, now, nextOid, ret, calls, acc,
                 hpc, hloc, reply, iterDirty, clears>>

\* app.py 220-226: the request phase
PRequestUnit ==
    /\ pipe.phase = "request"
    /\ pipe.i <= Len(pipe.modules)
    /\ LoopBody("request", pipe.data, process_request(pipe.modules[pipe.i], pipe.data, pipe.settings))
    /\ UNCHANGED <<TrackerVars, gen, mem, unit>>

\* mutant: the settings are fetched again for the response phase
PUpstream_refetches ==
    /\ pipe.phase = "request"
    /\ pipe.i > Len(pipe.modules)
    /\ pipe' = [pipe EXCEPT !.phase = "response", !.i = 1, !.request_data = pipe.data,
                            !.data = <<>>, !.settings = pipe.provider]
    /\ UNCHANGED <<TrackerVars, gen, mem, unit>>

\* app.py 246-248: create returns; response_data = copy.deepcopy(original_response)
PUpstream ==
    /\ pipe.phase = "request"
    /\ pipe.i > Len(pipe.modules)
    /\ pipe' = [pipe EXCEPT !.phase = "response", !.i = 1, !.request_data = pipe.data, !.data = <<>>]
    /\ UNCHANGED <<TrackerVars, gen, mem, unit>>

\* app.py 250-256: the response phase
PResponseUnit ==
    /\ pipe.phase = "response"
    /\ pipe.i <= Len(pipe.modules)
    /\ LoopBody("response", pipe.data, process_response(pipe.modules[pipe.i], pipe.data, pipe.settings))
    /\ UNCHANGED <<TrackerVars, gen, mem, unit>>

\* app.py 258-262: the response phase is over
PFinish ==
    /\ pipe.phase = "response"
    /\ pipe.i > Len(pipe.modules)
    /\ pipe' = [pipe EXCEPT !.phase = "done"]
    /\ UNCHANGED <<TrackerVars, gen, mem, unit>>

\* app.py 208-210: a later call with the same payload, while the provider's
\* settings are the same; module_manager.modules is the same list of the same
\* unit instances.  earlier keeps what the call before it produced.
PNextCall ==
    /\ pipe.phase = "done"
    /\ pipe.earlier = <<>>
    /\ pipe' = [pipe EXCEPT
          !.phase = "request", !.settings = pipe.provider, !.i = 1, !.data = <<>>,
          !.request_data = <<>>, !.visits = <<>>,
          !.earlier = <<[request_data |-> pipe.request_data, response_data |-> pipe.data,
                         settings |-> pipe.settings]>>]
    /\ UNCHANGED <<TrackerVars, gen, mem, unit>>


\* -------------------------------------------------------------- generate()
\* The generator of app.py 236-239.  upstream is what the stream will deliver,
\* pulled how many of its chunks the for loop has taken, chunk the loop
\* variable, out the items handed to the server for the caller.
NoGen == [pc |-> "none"]
Chunks == {"c1", "c2", "c3"}
Streams == UNION {[1..n -> Chunks] : n \in 0..MaxChunks}

\* chunk.model_dump_json()
model_dump_json(chunk) == <<"json", chunk>>

GFrame == UNCHANGED <<TrackerVars, pipe, mem, unit>>

\* the server asks for the next item: `for chunk in stream` takes the next
\* chunk, finds the stream exhausted, or the iteration raises
GPull ==
    /\ gen.pc = "suspended"
    /\ \/ /\ gen.pulled < Len(gen.upstream)
          /\ gen' = [gen EXCEPT !.pulled = @ + 1, !.chunk = <<gen.upstream[gen.pulled + 1]>>,
                                !.pc = "yield"]
       \/ /\ gen.pulled = Len(gen.upstream)
          /\ gen' = [gen EXCEPT !.chunk = <<>>, !.pc = "end"]
       \/ gen' = [gen EXCEPT !.pc = "raised"]
    /\ GFrame

\* mutant: the items are handed over newest first
GYield_prepends ==
    /\ gen.pc = "yield"
    /\ gen' = [gen EXCEPT !.out = <<Line(model_dump_json(gen.chunk[1]))>> \o @,
                          !.pc = "suspended"]
    /\ GFrame

\* app.py 238: yield f"data: {chunk.model_dump_json()}\n\n"
GYield ==
    /\ gen.pc = "yield"
    /\ gen' = [gen EXCEPT !.out = Append(@, Line(model_dump_json(gen.chunk[1]))),
                          !.pc = "suspended"]
    /\ GFrame

\* app.py 239: yield "data: [DONE]\n\n", after which the generator returns
GDone ==
    /\ gen.pc = "end"
    /\ gen' = [gen EXCEPT !.out = Append(@, Line("[DONE]")), !.pc = "finished"]
    /\ GFrame

\* the caller disconnects and the server closes the suspended generator
GClose ==
    /\ gen.pc = "suspended"
    /\ gen' = [gen EXCEPT !.pc = "closed"]
    /\ GFrame


\* ------------------------------------------------------- units of src/modules
\* A text is the sequence of its pieces, a piece being one character or a
\* fixed string of the code; concatenation is \o.  A key a dict may lack holds
\* <<>> when absent and <<v>> when present.
NoUnit == [pc |-> "none"]
NoneValue == <<"<None>">>                     \* the object None as a dict value
str(v) == IF v = NoneValue THEN <<"N", "o", "n", "e">> ELSE v

UpperCase == <<"A", "B", "C", "D", "E", "F", "G", "H", "I", "J", "K", "L", "M",
               "N", "O", "P", "Q", "R", "S", "T", "U", "V", "W", "X", "Y", "Z">>
LowerCase == <<"a", "b", "c", "d", "e", "f", "g", "h", "i", "j", "k", "l", "m",
               "n", "o", "p", "q", "r", "s", "t", "u", "v", "w", "x", "y", "z">>

\* str.lower, one character
lower_char(c) ==
    IF \E i \in 1..Len(UpperCase) : UpperCase[i] = c
    THEN LowerCase[CHOOSE i \in 1..Len(UpperCase) : UpperCase[i] = c]
    ELSE c

\* str.lower
lower(text) == [i \in 1..Len(text) |-> lower_char(text[i])]

StartsAt(text, word, i) ==
    /\ i + Len(word) - 1 <= Len(text)
    /\ SubSeq(text, i, i + Len(word) - 1) = word

\* `word in content`
Contains(text, word) == \E i \in 1..Len(text) : StartsAt(text, word, i)

RECURSIVE replace_from(_, _, _, _)
replace_from(text, old, new, i) ==
    IF i > Len(text) THEN <<>>
    ELSE IF StartsAt(text, old, i) THEN new \o replace_from(text, old, new, i + Len(old))
    ELSE <<text[i]>> \o replace_from(text, old, new, i + 1)

\* str.replace(old, new): every occurrence, left to right, none overlapping
replace(text, old, new) == replace_from(text, old, new, 1)

\* content_moderation.py 13
banned_words == << <<"h", "a", "c", "k">>,
                   <<"e", "x", "p", "l", "o", "i", "t">>,
                   <<"m", "a", "l", "w", "a", "r", "e">> >>
FILTERED == <<"[FILTERED]">>

\* content_moderation.py 18-21: `content` is the lower-cased text read once at
\* line 17; the replacement is made in message["content"] itself
RECURSIVE ForEachWord(_, _, _)
ForEachWord(current, content, k) ==
    IF k > Len(banned_words) THEN current
    ELSE ForEachWord(IF Contains(content, banned_words[k])
                     THEN replace(current, banned_words[k], FILTERED)
                     ELSE current,
                     content, k + 1)

\* content_moderation.py 16-21, one message; message.get("content", "") of a
\* message without content is "", in which no word is found
ModerateMessage(message) ==
    IF message.content = <<>> THEN message
    ELSE [message EXCEPT !.content = <<ForEachWord(message.content[1],
                                                  lower(message.content[1]), 1)>>]

\* ContentModerationModule._process_request
ContentModeration_process_request(request_data, settings) ==
    [request_data EXCEPT
        !.messages = [i \in 1..Len(request_data.messages) |->
                         ModerateMessage(request_data.messages[i])]]

HasContent(choice) == choice.message # <<>> /\ choice.message[1].content # <<>>

\* ContentModerationModule._process_response: choice["message"]["content"] = content
ContentModeration_process_response(response_data, settings) ==
    [response_data EXCEPT
        !.choices = [i \in 1..Len(response_data.choices) |->
            LET choice == response_data.choices[i]
            IN IF HasContent(choice)
               THEN [choice EXCEPT !.message = <<[choice.message[1] EXCEPT
                                                    !.content = <<choice.message[1].content[1]>>]>>]
               ELSE choice]]

PiratePrefix == <<"Respond like a pirate. ">>
PirateMarker == <<"\n\n[Told to respond like a pirate]">>

IsUser(message) == message.role = <<"user">>

\* mutant: the first user message instead of the last
PirateMode_process_request_first(request_data, settings) ==
    IF request_data.messages = <<>> \/ request_data.messages[1] = <<>>
    THEN request_data
    ELSE LET messages == request_data.messages[1]
             users == {i \in 1..Len(messages) : IsUser(messages[i])}
         IN IF users = {} THEN request_data
            ELSE LET i == CHOOSE u \in users : \A v \in users : u <= v
                     original_content ==
                        IF messages[i].content = <<>> THEN <<>> ELSE str(messages[i].content[1])
                 IN [request_data EXCEPT
                        !.messages = <<[messages EXCEPT
                            ![i] = [@ EXCEPT !.content = <<PiratePrefix \o original_content>>]]>>]

\* PirateModeModule._process_request: pirate_mode.py 11-22; the loop runs from
\* the last message down and stops at the first one whose role is user
PirateMode_process_request(request_data, settings) ==
    IF request_data.messages = <<>> \/ request_data.messages[1] = <<>>
    THEN request_data
    ELSE LET messages == request_data.messages[1]
             users == {i \in 1..Len(messages) : IsUser(messages[i])}
         IN IF users = {} THEN request_data
            ELSE LET i == CHOOSE u \in users : \A v \in users : u >= v
                     original_content ==
                        IF messages[i].content = <<>> THEN <<>> ELSE str(messages[i].content[1])
                 IN [request_data EXCEPT
                        !.messages = <<[messages EXCEPT
                            ![i] = [@ EXCEPT !.content = <<PiratePrefix \o original_content>>]]>>]

\* PirateModeModule._process_response: pirate_mode.py 24-31
PirateMode_process_response(response_data, settings) ==
    IF response_data.choices = <<>> THEN response_data
    ELSE [response_data EXCEPT
            !.choices = <<[i \in 1..Len(response_data.choices[1]) |->
                LET choice == response_data.choices[1][i]
                IN IF HasContent(choice)
                   THEN [choice EXCEPT !.message = <<[choice.message[1] EXCEPT
                           !.content = <<str(choice.message[1].content[1]) \o PirateMarker>>]>>]
                   ELSE choice]>>]

Digit == [c \in {"1", "2"} |-> IF c = "1" THEN 1 ELSE 2]
IsDigits(text) == \A i \in 1..Len(text) : text[i] \in DOMAIN Digit

RECURSIVE Decimal(_)
Decimal(text) ==
    IF text = <<>> THEN 0
    ELSE 10 * Decimal(SubSeq(text, 1, Len(text) - 1)) + Digit[text[Len(text)]]

\* int(text): <<n>>, or <<>> for ValueError
int(text) == IF text # <<>> /\ IsDigits(text) THEN <<Decimal(text)>> ELSE <<>>

\* float(text): <<the value as digits / 10^places>>, or <<>> for ValueError
float(text) ==
    LET dots == {i \in 1..Len(text) : text[i] = "."}
        digits == SelectSeq(text, LAMBDA c : c # ".")
    IN IF Cardinality(dots) <= 1 /\ digits # <<>> /\ IsDigits(digits)
       THEN <<[digits |-> Decimal(digits),
               places |-> IF dots = {} THEN 0
                          ELSE Len(text) - (CHOOSE i \in dots : TRUE)]>>
       ELSE <<>>

\* settings.get(name, ""), and the truth of a string
GetOr(value, default) == IF value = <<>> THEN default ELSE value[1]
NonEmpty(text) == text # <<>>

\* response_filtering.py 13-18; message['content'] of a message without
\* content raises KeyError, with the earlier messages already changed
RECURSIVE PrefixSystem(_, _, _)
PrefixSystem(messages, system_prefix, i) ==
    IF i > Len(messages) THEN [outcome |-> "returned", messages |-> messages]
    ELSE IF messages[i].role # <<"system">> THEN PrefixSystem(messages, system_prefix, i + 1)
    ELSE IF messages[i].content = <<>> THEN [outcome |-> "KeyError", messages |-> messages]
    ELSE PrefixSystem([messages EXCEPT
                          ![i] = [@ EXCEPT !.content = <<system_prefix \o <<"\n">> \o @[1]>>]],
                      system_prefix, i + 1)

\* mutant: a value that does not parse is written as None
ResponseFiltering_process_request_writes(request_data, settings) ==
    LET system_prefix == GetOr(settings.system_prompt_prefix, <<>>)
        prefixed == IF NonEmpty(system_prefix)
                    THEN PrefixSystem(request_data.messages, system_prefix, 1)
                    ELSE [outcome |-> "returned", messages |-> request_data.messages]
        temp_override == GetOr(settings.temperature_override, <<>>)
        max_tokens == GetOr(settings.max_tokens_limit, <<>>)
    IN [outcome |-> prefixed.outcome,
        data |-> IF prefixed.outcome # "returned"
                 THEN [request_data EXCEPT !.messages = prefixed.messages]
                 ELSE [request_data EXCEPT
                         !.messages = prefixed.messages,
                         !.temperature = IF NonEmpty(temp_override)
                                         THEN float(temp_override) ELSE @,
                         !.max_tokens = IF NonEmpty(max_tokens)
                                        THEN int(max_tokens) ELSE @]]

\* ResponseFilteringModule._process_request: response_filtering.py 11-36
ResponseFiltering_process_request(request_data, settings) ==
    LET system_prefix == GetOr(settings.system_prompt_prefix, <<>>)
        prefixed == IF NonEmpty(system_prefix)
                    THEN PrefixSystem(request_data.messages, system_prefix, 1)
                    ELSE [outcome |-> "returned", messages |-> request_data.messages]
        temp_override == GetOr(settings.temperature_override, <<>>)
        max_tokens == GetOr(settings.max_tokens_limit, <<>>)
    IN [outcome |-> prefixed.outcome,
        data |-> IF prefixed.outcome # "returned"
                 THEN [request_data EXCEPT !.messages = prefixed.messages]
                 ELSE [request_data EXCEPT
                         !.messages = prefixed.messages,
                         !.temperature = IF NonEmpty(temp_override) /\ float(temp_override) # <<>>
                                         THEN float(temp_override) ELSE @,
                         !.max_tokens = IF NonEmpty(max_tokens) /\ int(max_tokens) # <<>>
                                        THEN int(max_tokens) ELSE @]]

\* ResponseFilteringModule._process_response: response_filtering.py 38-45
ResponseFiltering_process_response(response_data, settings) == response_data

\* the payloads and settings the units are applied to
SeqsUpTo(S, n) == UNION {[1..k -> S] : k \in 0..n}
RECURSIVE Flatten(_)
Flatten(pieces) == IF pieces = <<>> THEN <<>> ELSE Head(pieces) \o Flatten(Tail(pieces))
Pieces == {<<"h", "a", "c", "k">>, <<"H", "A", "C", "K">>,
           <<"e", "x", "p", "l", "o", "i", "t">>, <<"M", "a", "l", "w", "a", "r", "e">>,
           <<" ", "o", "k", " ">>}
Texts == {Flatten(ps) : ps \in SeqsUpTo(Pieces, MaxPieces)}
Optional(S) == {<<>>} \cup {<<v>> : v \in S}

\* one message with a text of several pieces, or several messages of one piece
ModeratedRequests ==
    {[messages |-> <<[role |-> <<"user">>, content |-> <<text>>]>>] : text \in Texts}
    \cup {[messages |-> ms] :
             ms \in SeqsUpTo([role : {<<"user">>}, content : Optional(Pieces)], MaxMessages)}
Choices == [message : Optional([content : Optional({<<"A", "y", "e">>, NoneValue})])]
ModeratedResponses == {[choices |-> cs] : cs \in SeqsUpTo(Choices, MaxMessages)}
PirateRequests ==
    {[messages |-> ms] :
        ms \in Optional(SeqsUpTo([role : Optional({"user", "assistant"}),
                                  content : Optional({<<"H", "i">>, NoneValue})],
                                 MaxMessages))}
PirateResponses == {[choices |-> cs] : cs \in Optional(SeqsUpTo(Choices, MaxMessages))}
Overrides == Optional(SeqsUpTo({"1", ".", "x"}, MaxDigits))
ShapedRequests ==
    [messages : {<<[role |-> <<"system">>, content |-> <<<<"S">>>>],
                   [role |-> <<"user">>, content |-> <<<<"U">>>>]>>,
                 <<[role |-> <<"system">>, content |-> <<>>]>>},
     temperature : Optional({[digits |-> 7, places |-> 1]}),
     max_tokens : Optional({100})]
ShapingSettings ==
    [system_prompt_prefix : Optional({<<>>, <<"P">>}),
     temperature_override : Overrides,
     max_tokens_limit : Overrides]

Apply(module, phase, inputs, settings) ==
    \E x \in inputs : \E st \in settings :
        unit = [pc |-> "ready", module |-> module, phase |-> phase,
                input |-> x, settings |-> st, output |-> <<>>]
Ready(module, phase) == unit.pc = "ready" /\ unit.module = module /\ unit.phase = phase
Done(output) == unit' = [unit EXCEPT !.pc = "done", !.output = <<output>>]
UFrame == UNCHANGED <<TrackerVars, pipe, gen, mem>>

UContentModerationRequest ==
    /\ Ready("content_moderation", "request")
    /\ Done(ContentModeration_process_request(unit.input, unit.settings))
    /\ UFrame

UContentModerationResponse ==
    /\ Ready("content_moderation", "response")
    /\ Done(ContentModeration_process_response(unit.input, unit.settings))
    /\ UFrame

UPirateModeRequest ==
    /\ Ready("pirate_mode", "request")
    /\ Done(PirateMode_process_request(unit.input, unit.settings))
    /\ UFrame

UPirateModeResponse ==
    /\ Ready("pirate_mode", "response")
    /\ Done(PirateMode_process_response(unit.input, unit.settings))
    /\ UFrame

UResponseFilteringRequest ==
    /\ Ready("response_filtering", "request")
    /\ Done(ResponseFiltering_process_request(unit.input, unit.settings))
    /\ UFrame

UResponseFilteringResponse ==
    /\ Ready("response_filtering", "response")
    /\ Done(ResponseFiltering_process_response(unit.input, unit.settings))
    /\ UFrame

\* ------------------------------------------------------ objects and copies
\* mem.heap maps the identity of an object to its value; a variable or a
\* field holds an identity.  The object made at a given place of the code for
\* call c has the identity <<c, place>>.  A payload is the sequence of the
\* marks left on it, a settings dict a function from names to values.
NoRef == <<>>
NoMem == [config |-> NoRef]
\* the identity of the dict bound to ConfigManager.settings after n saves
ConfigRef(n) == [i \in 1..(n + 1) |-> "config"]
Calls == {"k1", "k2"}
Received == {<<>>, <<"q">>}
DefaultSettings == OneKey("use_unit", "True")
SavedSettings == OneKey("use_unit", "False")

Put(heap, ref, v) == [r \in DOMAIN heap \cup {ref} |-> IF r = ref THEN v ELSE heap[r]]

\* mutant: the copy is the object itself
deepcopy_ref_aliases(heap, ref, new) == [heap |-> heap, ref |-> ref]

\* copy.deepcopy(obj): a new object, new, with the value of ref
deepcopy_ref(heap, ref, new) == [heap |-> Put(heap, new, heap[ref]), ref |-> new]

\* RequestMonitor._sanitize_data: `if not data: return data`, else a deep copy
_sanitize_data_ref(heap, ref, new) ==
    IF heap[ref] = <<>> THEN [heap |-> heap, ref |-> ref] ELSE deepcopy_ref(heap, ref, new)

\* self._sanitize_data(copy.deepcopy(obj)), as every payload is stored
Stored(heap, ref, c, field) ==
    LET copied == deepcopy_ref(heap, ref, <<c, field, "deepcopy">>)
    IN _sanitize_data_ref(copied.heap, copied.ref, <<c, field, "sanitized">>)

\* mutant: the provider hands out its own dict
get_all_settings_shares(heap, config, new) == [heap |-> heap, ref |-> config]

\* ConfigManager.get_all_settings: self.settings.copy()
get_all_settings(heap, config, new) == [heap |-> Put(heap, new, heap[config]), ref |-> new]

NoFrame == [pc |-> "idle", received |-> <<>>, json |-> NoRef, settings |-> NoRef,
            fetched |-> EmptyDict, merges |-> 0, original_request |-> NoRef,
            request_data |-> NoRef, written |-> <<>>, original_response |-> NoRef,
            response_data |-> NoRef, passed |-> <<>>]
NoStored == [original_request |-> NoRef, processed_request |-> NoRef,
             original_response |-> NoRef, processed_response |-> NoRef]

MFrameOthers == UNCHANGED <<TrackerVars, pipe, gen, unit>>

\* app.py 208-210: the settings snapshot, request.json and its two copies
MBegin(c) ==
    /\ mem.call[c].pc = "idle"
    /\ \E q \in Received :
         LET snap == get_all_settings(mem.heap, mem.config, <<c, "settings">>)
             h1 == Put(snap.heap, <<c, "json">>, q)
             orig == deepcopy_ref(h1, <<c, "json">>, <<c, "original_request">>)
             work == deepcopy_ref(orig.heap, orig.ref, <<c, "request_data">>)
         IN mem' = [mem EXCEPT
               !.heap = work.heap,
               !.call[c] = [@ EXCEPT !.pc = "start", !.received = q, !.json = <<c, "json">>,
                                     !.settings = snap.ref, !.fetched = mem.heap[mem.config],
                                     !.original_request = orig.ref,
                                     !.request_data = work.ref]]
    /\ MFrameOthers

\* app.py 215-218 and request_monitor.py 69-70: the record's two request fields
MStart(c) ==
    /\ mem.call[c].pc = "start"
    /\ LET f == mem.call[c]
           a == Stored(mem.heap, f.original_request, c, "original_request")
           b == Stored(a.heap, f.original_request, c, "processed_request")
       IN mem' = [mem EXCEPT
             !.heap = b.heap,
             !.call[c].pc = "request",
             !.rec[c] = [@ EXCEPT !.original_request = a.ref, !.processed_request = b.ref]]
    /\ MFrameOthers

\* a unit changes the working payload in place (message["content"] = ...) and
\* its update_settings map, if any, is merged into the call's settings dict
InPlace(heap, f, c, payload, merge) ==
    LET h1 == Put(heap, payload, Append(heap[payload], "mark"))
    IN IF merge THEN Put(h1, f.settings, Update(h1[f.settings], OneKey("merged_by", c)))
       ELSE h1

\* app.py 220-226: the request phase
MRequestPhase(c) ==
    /\ mem.call[c].pc = "request"
    /\ \E merge \in BOOLEAN :
         mem' = [mem EXCEPT
            !.heap = InPlace(mem.heap, mem.call[c], c, mem.call[c].request_data, merge),
            !.call[c] = [@ EXCEPT !.pc = "update",
                                  !.merges = @ + (IF merge THEN 1 ELSE 0)]]
    /\ MFrameOthers

\* app.py 228-230: record.processed_request = _sanitize_data(copy.deepcopy(request_data))
MUpdate(c) ==
    /\ mem.call[c].pc = "update"
    /\ LET f == mem.call[c]
           a == Stored(mem.heap, f.request_data, c, "update")
       IN mem' = [mem EXCEPT
             !.heap = a.heap,
             !.call[c] = [@ EXCEPT !.pc = "upstream", !.written = mem.heap[f.request_data]],
             !.rec[c].processed_request = a.ref]
    /\ MFrameOthers

\* app.py 246-248: original_response = response.model_dump() and its copy
MUpstream(c) ==
    /\ mem.call[c].pc = "upstream"
    /\ LET h1 == Put(mem.heap, <<c, "original_response">>, <<"r">>)
           work == deepcopy_ref(h1, <<c, "original_response">>, <<c, "response_data">>)
       IN mem' = [mem EXCEPT
             !.heap = work.heap,
             !.call[c] = [@ EXCEPT !.pc = "response",
                                   !.original_response = <<c, "original_response">>,
                                   !.response_data = work.ref]]
    /\ MFrameOthers

\* app.py 250-256: the response phase
MResponsePhase(c) ==
    /\ mem.call[c].pc = "response"
    /\ \E merge \in BOOLEAN :
         mem' = [mem EXCEPT
            !.heap = InPlace(mem.heap, mem.call[c], c, mem.call[c].response_data, merge),
            !.call[c] = [@ EXCEPT !.pc = "complete",
                                  !.merges = @ + (IF merge THEN 1 ELSE 0)]]
    /\ MFrameOthers

\* app.py 258-260 and request_monitor.py 82-83: the record's two response fields
MComplete(c) ==
    /\ mem.call[c].pc = "complete"
    /\ LET f == mem.call[c]
           a == Stored(mem.heap, f.original_response, c, "original_response")
           b == Stored(a.heap, f.response_data, c, "processed_response")
       IN mem' = [mem EXCEPT
             !.heap = b.heap,
             !.call[c] = [@ EXCEPT !.pc = "done",
                                   !.passed = <<mem.heap[f.original_response],
                                                mem.heap[f.response_data]>>],
             !.rec[c] = [@ EXCEPT !.original_response = a.ref, !.processed_response = b.ref]]
    /\ MFrameOthers

\* the caller of complete_request changes, afterwards, the objects it passed
\* and the working request payload
MLater(c) ==
    /\ mem.call[c].pc = "done"
    /\ LET f == mem.call[c]
           h1 == Put(mem.heap, f.original_response, Append(mem.heap[f.original_response], "late"))
           h2 == Put(h1, f.response_data, Append(h1[f.response_data], "late"))
           h3 == Put(h2, f.request_data, Append(h2[f.request_data], "late"))
       IN mem' = [mem EXCEPT !.heap = h3, !.call[c].pc = "after"]
    /\ MFrameOthers

\* app.py 136-137 and config_manager.py 87-93: save_settings(request.json)
\* binds self.settings to the dict it was given
MSave ==
    /\ mem.config # NoRef
    /\ mem.saves < MaxSaves
    /\ mem' = [mem EXCEPT
          !.heap = Put(mem.heap, ConfigRef(mem.saves + 1), SavedSettings),
          !.config = ConfigRef(mem.saves + 1),
          !.saves = @ + 1]
    /\ MFrameOthers


\* RequestMonitor.__init__(max_records), with the sink the process starts with
InitTracker(sink, capacities) ==
    /\ max_records \in capacities
    /\ records = <<>>
    /\ lock = [owner |-> NoThread, count |-> 0]
    /\ socketio = sink
    /\ events = <<>>
    /\ now = 0
    /\ nextOid = 1
    /\ ret = [t \in Threads |-> IdleRet]
    /\ calls = 0
    /\ acc = [by |-> NoThread, held |-> TRUE]
    /\ hpc = [h \in Handlers |-> "idle"]
    /\ hloc = [h \in Handlers |-> NoLocals]
    /\ reply = [h \in Handlers |-> NoReply]
    /\ iterDirty = [h \in Handlers |-> FALSE]
    /\ clears = 0

InitWith(sink) ==
    InitTracker(sink, 1..MaxCapacity) /\ pipe = NoPipe /\ gen = NoGen /\ mem = NoMem /\ unit = NoUnit

Init == InitWith(None)

Next ==
    \/ ApiStart
    \/ ApiComplete
    \/ ApiError
    \/ ApiClear
    \/ ApiGetRecords
    \/ ApiGetRecord
    \/ ApiReturn
    \/ set_socketio
    \/ Tick

Spec == Init /\ [][Next]_vars

\* app.py 57: request_monitor.set_socketio(socketio) runs before any request
InitApp == InitWith("socketio")

Handler(h) ==
    \/ HBegin(h)
    \/ HStart(h)
    \/ HStartReturn(h)
    \/ HRequestPhase(h)
    \/ HFind(h)
    \/ HUpdate(h)
    \/ HUpstream(h)
    \/ HStream(h)
    \/ HChunk(h)
    \/ HStreamEnd(h)
    \/ HStreamRaise(h)
    \/ HDisconnect(h)
    \/ HResponsePhase(h)
    \/ HComplete(h)
    \/ HCompleteReturn(h)
    \/ HReply(h)
    \/ HExcept(h)
    \/ HExceptReturn(h)

NextApp ==
    \/ \E h \in Handlers : Handler(h)
    \/ clear_monitor_records
    \/ ApiReturn

SpecApp == InitApp /\ [][NextApp]_vars

\* Flask serves each request on a thread of its own and the threads are
\* scheduled by the operating system: a handler whose next step stays possible
\* takes it; create returns or raises.  The monitor page makes no request.
\* Position changes at every step of a handler.
Position == <<hpc, [h \in Handlers |-> Len(reply[h].chunks)]>>

NextLive == \E h \in Handlers : Handler(h)

SpecLive ==
    /\ InitApp
    /\ [][NextLive]_vars
    /\ \A h \in Handlers : WF_Position(Handler(h))

\* app.py 208-210: settings = config_manager.get_all_settings() and the working
\* copy of the payload, before the first unit
InitPipe ==
    /\ InitTracker("socketio", {MaxCapacity})
    /\ gen = NoGen /\ mem = NoMem /\ unit = NoUnit
    /\ \E modules \in Modules, settings \in Settings :
         pipe = [phase |-> "request", modules |-> modules, provider |-> settings,
                 settings |-> settings, i |-> 1, data |-> <<>>, request_data |-> <<>>,
                 visits |-> <<>>, earlier |-> <<>>]

NextPipe ==
    \/ PRequestUnit
    \/ PUpstream
    \/ PResponseUnit
    \/ PFinish
    \/ PNextCall

SpecPipe == InitPipe /\ [][NextPipe]_vars

\* app.py 235-240: create has returned the stream and the response object
\* holds the generator, not yet started
InitStream ==
    /\ InitTracker("socketio", {MaxCapacity})
    /\ pipe = NoPipe /\ mem = NoMem /\ unit = NoUnit
    /\ \E upstream \in Streams :
         gen = [pc |-> "suspended", upstream |-> upstream, pulled |-> 0, chunk |-> <<>>,
                out |-> <<>>]

NextStream ==
    \/ GPull
    \/ GYield
    \/ GDone
    \/ GClose

SpecStream == InitStream /\ [][NextStream]_vars

\* config_manager.py 55: self.settings = self.load_settings(), and no call yet
InitMem ==
    /\ InitTracker("socketio", {MaxCapacity})
    /\ pipe = NoPipe /\ gen = NoGen /\ unit = NoUnit
    /\ mem = [heap |-> Put(EmptyDict, ConfigRef(0), DefaultSettings),
              config |-> ConfigRef(0), saves |-> 0,
              call |-> [c \in Calls |-> NoFrame], rec |-> [c \in Calls |-> NoStored]]

CallStep(c) ==
    \/ MBegin(c)
    \/ MStart(c)
    \/ MRequestPhase(c)
    \/ MUpdate(c)
    \/ MUpstream(c)
    \/ MResponsePhase(c)
    \/ MComplete(c)
    \/ MLater(c)

NextMem ==
    \/ \E c \in Calls : CallStep(c)
    \/ MSave

SpecMem == InitMem /\ [][NextMem]_vars

\* a unit method about to be called with a payload and the call's settings
InitUnits ==
    /\ InitTracker("socketio", {MaxCapacity})
    /\ pipe = NoPipe /\ gen = NoGen /\ mem = NoMem
    /\ \/ Apply("content_moderation", "request", ModeratedRequests, {EmptyDict})
       \/ Apply("content_moderation", "response", ModeratedResponses, {EmptyDict})
       \/ Apply("pirate_mode", "request", PirateRequests, {EmptyDict})
       \/ Apply("pirate_mode", "response", PirateResponses, {EmptyDict})
       \/ Apply("response_filtering", "request", ShapedRequests, ShapingSettings)
       \/ Apply("response_filtering", "response", ModeratedResponses,
                [response_format : Optional({"json", "text"})])

NextUnits ==
    \/ UContentModerationRequest
    \/ UContentModerationResponse
    \/ UPirateModeRequest
    \/ UPirateModeResponse
    \/ UResponseFilteringRequest
    \/ UResponseFilteringResponse

SpecUnits == InitUnits /\ [][NextUnits]_vars

\* ------------------------------------------------------------- properties
Present(id) == \E i \in 1..Len(records) : records[i].id = id
IdsOf(recs) == [k \in 1..Len(recs) |-> recs[k].id]
\* thread t enters the tracker operation op in this step
Enters(t, op) == ret[t].op = "idle" /\ ret'[t].op = op

\* C1: get_records() returns the records most-recently-started first, and never
\* more than max_records of them, whatever calls were made before.
C1_OrderedAndBounded ==
    /\ Len(records) <= max_records
    /\ \A i, j \in 1..Len(records) : i < j => records[i].oid > records[j].oid
    /\ \A t \in Threads :
         (ret[t].op = "get_records" /\ ret[t].value[1] = NoLimit) =>
            /\ Len(ret[t].value[2]) <= max_records
            /\ ret[t].value[2] = [k \in 1..Len(records) |-> to_dict(records[k])]
            /\ \A i, j \in 1..Len(ret[t].value[2]) :
                 i < j => ret[t].value[2][i].timestamp >= ret[t].value[2][j].timestamp

C1_Witness ==
    /\ ret[Client].op = "get_records"
    /\ ret[Client].value[1] = NoLimit
    /\ Len(ret[Client].value[2]) = 2
    /\ nextOid = 4

\* C2: a record's status, once completed or error, is never changed again by a
\* later complete_request / error_request.
C2_StatusTerminal ==
    [][\A i \in 1..Len(records), j \in 1..Len(records') :
          (records[i].oid = records'[j].oid /\ records[i].status # "pending")
             => records'[j].status = records[i].status]_vars

\* C3: start_request with an id already in the store leaves the store unchanged
\* and emits nothing.
C3_DuplicateRejected ==
    [][\A t \in Threads :
          (Enters(t, "start_request") /\ Present(ret'[t].value))
             => (records' = records /\ events' = events)]_vars

\* C4: no two records of the store have the same id.
C4_UniqueIds ==
    \A i, j \in 1..Len(records) : records[i].id = records[j].id => i = j

\* C5: start_request on a full store puts the new pending record at the front
\* and drops exactly the record at the back, whatever its status; with capacity
\* 2, start(A), start(B), start(C) leaves [C, B] and get_record(A) finds nothing.
C5_EvictStep ==
    \A t \in Threads :
       (Enters(t, "start_request") /\ Len(records) = max_records) =>
           /\ Len(records') = max_records
           /\ records'[1].id = ret'[t].value
           /\ records'[1].status = "pending"
           /\ records'[1].oid = nextOid
           /\ SubSeq(records', 2, max_records) = SubSeq(records, 1, max_records - 1)

ScenarioB ==
    /\ max_records = 2
    /\ calls = 3
    /\ Len(events) = 3
    /\ \A k \in 1..3 : events[k].type = "request_started"
    /\ <<events[1].data.id, events[2].data.id, events[3].data.id>> = <<"A", "B", "C">>

C5_Scenario ==
    ScenarioB =>
       /\ IdsOf(records) = <<"C", "B">>
       /\ (ret[Client].op = "get_records" /\ ret[Client].value[1] = NoLimit)
             => [k \in 1..Len(ret[Client].value[2]) |-> ret[Client].value[2][k].id] = <<"C", "B">>
       /\ (ret[Client].op = "get_record" /\ ret[Client].value[1] = "A")
             => Len(ret[Client].value) = 1

C5_EvictsOldest == [][C5_EvictStep]_vars /\ []C5_Scenario

C5_Witness ==
    /\ ScenarioB
    /\ ret[Client].op = "get_record"
    /\ ret[Client].value = <<"A">>
    /\ records[2].status = "pending"

\* C6: handlers that have called start_request concurrently, no more of them
\* than the capacity, each have exactly one record in the store.
Started == {h \in Handlers : hpc[h] \notin {"idle", "start"}}

C6_NoLostStart ==
    (clears = 0 /\ Cardinality(Started) <= max_records) =>
       /\ Len(records) = Cardinality(Started)
       /\ \A h \in Started :
            Cardinality({i \in 1..Len(records) : records[i].id = RequestId(h)}) = 1

C6_Witness ==
    /\ clears = 0
    /\ Started = Handlers
    /\ Len(records) = Cardinality(Handlers)
    /\ \E h \in Handlers : hpc[h] = "start_return"

\* C7: every access to the store, the handlers' update of processed_request
\* included, happens with the tracker's lock held by the accessing thread.
C7_AllUnderLock == acc.held

\* C8: a raising sink never makes a tracker operation raise, and never keeps a
\* handler from returning the upstream response.
C8_SinkFailureSwallowed ==
    /\ \A t \in Threads : ret[t].outcome # "raised"
    /\ \A h \in Handlers : reply[h].body # "unhandled"

\* C9: complete_request / error_request on a record that is already completed
\* or error changes no field of it and emits nothing.
C9_TerminalNoOp ==
    [][\A t \in Threads :
          ((Enters(t, "complete_request") \/ Enters(t, "error_request"))
             /\ Present(ret'[t].value)
             /\ records[_find_record(ret'[t].value)].status # "pending")
          => (records' = records /\ events' = events)]_vars

\* C10: complete_request / error_request with an id that is not in the store
\* changes nothing in the store, emits nothing and returns normally.
C10_AbsentNoOp ==
    [][\A t \in Threads :
          ((Enters(t, "complete_request") \/ Enters(t, "error_request"))
             /\ ~Present(ret'[t].value))
          => (records' = records /\ events' = events /\ ret'[t].outcome = "returned")]_vars

C10_Witness ==
    /\ ret[Client].op \in {"complete_request", "error_request"}
    /\ ~Present(ret[Client].value)
    /\ records # <<>>
    /\ Len(events) > 0
    /\ events[1].type = "request_started"
    /\ events[1].data.id = ret[Client].value

\* C11: complete_request(id) on a record that start_request(id) put in the store
\* and that is still there leaves it completed, with both response fields set
\* and, when the start time is not after the completion time, a duration that
\* is not negative; every other record is untouched, and the sink that is set
\* receives exactly one request_completed event carrying that record.
C11_CompleteStep ==
    \A t \in Threads :
       (Enters(t, "complete_request") /\ Present(ret'[t].value)) =>
          LET i == _find_record(ret'[t].value)
          IN /\ Len(records') = Len(records)
             /\ \A k \in 1..Len(records) : k # i => records'[k] = records[k]
             /\ records'[i].oid = records[i].oid
             /\ records'[i].status = "completed"
             /\ records'[i].original_response # None
             /\ records'[i].processed_response # None
             /\ Len(records'[i].duration_ms) = 1
             /\ ret'[t].start_time <= now => records'[i].duration_ms[1] >= 0
             /\ events' = IF socketio # None /\ ret'[t].outcome = "returned"
                          THEN Append(events, [type |-> "request_completed",
                                               data |-> to_dict(records'[i]),
                                               timestamp |-> now])
                          ELSE events

C11_Completes == [][C11_CompleteStep]_vars

C11_Witness ==
    /\ ret[Client].op = "complete_request"
    /\ ret[Client].outcome = "returned"
    /\ socketio # None
    /\ Len(records) = 2
    /\ records[2].id = ret[Client].value
    /\ records[1].id # ret[Client].value
    /\ records[2].status = "completed"
    /\ records[2].duration_ms = <<1000>>
    /\ Len(events) = 3
    /\ events[3].type = "request_completed"
    /\ events[3].data.id = ret[Client].value

\* the handlers whose call has ended with the error e raised inside the try block
Failed(e) == {h \in Handlers : hpc[h] = "done" /\ hloc[h].error = e}
Count(seq, x) == Cardinality({k \in 1..Len(seq) : seq[k] = x})

\* C12: when the upstream create call raises, the call's record, while in the
\* store, ends with status error, the raised error's non-empty message, which
\* is the message returned to the caller, and no processed_response; the
\* upstream call was made once.
C12_UpstreamFailure ==
    \A h \in Failed("upstream failed") :
       /\ Count(hloc[h].trail, "upstream") = 1
       /\ reply[h].code = 500
       /\ reply[h].body = hloc[h].error
       /\ \A i \in 1..Len(records) :
            records[i].id = RequestId(h) =>
               /\ records[i].status = "error"
               /\ records[i].error = reply[h].body
               /\ records[i].error # ""
               /\ records[i].processed_response = None

\* the violations of C12 are the calls whose error_request raised from emit
C12_ButForTheSink ==
    \A h \in Failed("upstream failed") :
       /\ Count(hloc[h].trail, "upstream") = 1
       /\ reply[h].code = 500
       /\ reply[h].body \in {hloc[h].error, "unhandled"}
       /\ \A i \in 1..Len(records) :
            records[i].id = RequestId(h) =>
               /\ records[i].status = "error"
               /\ records[i].error = hloc[h].error
               /\ records[i].processed_response = None

\* C13: clear_records empties the store and the sink that is set receives
\* records_cleared; an id that is not in the store is reported not found by
\* get_record and stays out of the store until it is started again, so every
\* id started before the clear is not found after it; complete_request /
\* error_request for a call whose record the clear removed change nothing.
C13_ClearStep ==
    \A t \in Threads :
       /\ Enters(t, "clear_records") =>
             /\ records' = <<>>
             /\ events' = IF socketio # None /\ ret'[t].outcome = "returned"
                          THEN Append(events, [type |-> "records_cleared",
                                               data |-> EmptyDict, timestamp |-> now])
                          ELSE events
       /\ (Enters(t, "get_record") /\ ~Present(ret'[t].value[1])) =>
             ret'[t].value = <<ret'[t].value[1]>>
       /\ ((Enters(t, "complete_request") \/ Enters(t, "error_request"))
              /\ ~Present(ret'[t].value)) =>
             (records' = records /\ events' = events)

C13_AbsentUntilStarted ==
    \A id \in Ids \cup Handlers :
       (~Present(id) /\ \E i \in 1..Len(records') : records'[i].id = id) =>
          \E t \in Threads : Enters(t, "start_request") /\ ret'[t].value = id

C13_ClearForgets == [][C13_ClearStep /\ C13_AbsentUntilStarted]_vars

\* started A, cleared, and the completion of A arrives
C13_Witness ==
    /\ Len(events) = 2
    /\ events[1].type = "request_started"
    /\ events[2].type = "records_cleared"
    /\ ret[Client].op \in {"complete_request", "error_request"}
    /\ ret[Client].value = events[1].data.id
    /\ records = <<>>

\* started A, cleared, started B, and A is looked up
C13_WitnessLookup ==
    /\ Len(events) = 3
    /\ events[1].type = "request_started"
    /\ events[2].type = "records_cleared"
    /\ events[3].type = "request_started"
    /\ ret[Client].op = "get_record"
    /\ ret[Client].value = <<events[1].data.id>>
    /\ Len(records) = 1

\* the k-th visit of the run, the partial map its unit's update_settings
\* returns, and whether a snapshot has the unit on
Hook(v) == pipe.modules[v.i].update_settings
UseKey(v) == get_setting_name(Name(v.i))
On(settings, key) == key \notin DOMAIN settings \/ settings[key] \notin {"False", None}
SamePhase(k) == k > 1 /\ pipe.visits[k].phase = pipe.visits[k - 1].phase

\* C14: the units are visited in registration order; the result of an enabled
\* unit is the payload the next unit gets; the partial map returned by its
\* update_settings is merged into the call's settings at once, and the next
\* visit, in the request phase or the response phase, sees the merged settings.
C14_OrderAndMerge ==
    pipe.phase # "none" =>
       \A k \in 1..Len(pipe.visits) :
          LET v == pipe.visits[k]
          IN /\ IF k = 1 THEN v.phase = "request" /\ v.i = 1
                ELSE IF SamePhase(k) THEN v.i = pipe.visits[k - 1].i + 1
                ELSE /\ pipe.visits[k - 1].phase = "request"
                     /\ pipe.visits[k - 1].i = Len(pipe.modules)
                     /\ v.phase = "response" /\ v.i = 1
             /\ v.in = IF SamePhase(k) THEN pipe.visits[k - 1].out ELSE <<>>
             /\ v.seen = IF k = 1 THEN pipe.provider ELSE pipe.visits[k - 1].after
             /\ v.outcome = "applied" =>
                   /\ v.out = Append(v.in, <<Name(v.i), v.phase>>)
                   /\ IF Hook(v) = <<>> THEN v.after = v.seen
                      ELSE /\ DOMAIN v.after = DOMAIN v.seen \cup DOMAIN Hook(v)[1]
                           /\ \A key \in DOMAIN v.after :
                                v.after[key] = IF key \in DOMAIN Hook(v)[1]
                                               THEN Hook(v)[1][key] ELSE v.seen[key]
             /\ k = Len(pipe.visits) =>
                   /\ v.outcome # "raised" => (pipe.settings = v.after)
                   /\ pipe.phase = v.phase => pipe.data = v.out

C14_Witness ==
    /\ pipe.phase = "done"
    /\ Len(pipe.visits) = 2 * MaxUnits
    /\ pipe.visits[1].outcome = "applied"
    /\ pipe.visits[1].after # pipe.visits[1].seen
    /\ pipe.visits[2].outcome = "applied"
    /\ Len(pipe.request_data) = 2
    /\ pipe.settings # pipe.visits[2].seen

\* C15: a unit whose use_<name> is false in the settings when it is visited
\* is not applied in the request phase nor in the response phase, and its
\* update_settings is not called; every other unit is still visited, in order,
\* and applied.
C15_DisabledSkipped ==
    pipe.phase # "none" =>
       /\ \A k \in 1..Len(pipe.visits) :
            LET v == pipe.visits[k]
            IN IF UseKey(v) \in DOMAIN v.seen /\ v.seen[UseKey(v)] = "False"
               THEN v.outcome = "skipped" /\ v.out = v.in /\ v.after = v.seen
               ELSE On(v.seen, UseKey(v)) => v.outcome \in {"applied", "raised"}
       /\ pipe.phase = "done" =>
            /\ Len(pipe.visits) = 2 * Len(pipe.modules)
            /\ \A k \in 1..Len(pipe.visits) :
                 pipe.visits[k].i = ((k - 1) % Len(pipe.modules)) + 1

C15_Witness ==
    /\ pipe.phase = "done"
    /\ pipe.modules[1].update_settings = <<OneKey(get_setting_name(Name(2)), "False")>>
    /\ [k \in 1..4 |-> pipe.visits[k].outcome] = <<"skipped", "applied", "skipped", "applied">>
    /\ pipe.visits[1].seen[get_setting_name(Name(1))] = "False"

\* C16: a unit is applied whenever its key use_<name> is absent from the
\* settings it is tested against, and is skipped only when the key is there
\* with a false value.
C16_FailOpen ==
    pipe.phase # "none" =>
       \A k \in 1..Len(pipe.visits) :
          LET v == pipe.visits[k]
          IN /\ UseKey(v) \notin DOMAIN v.seen => v.outcome # "skipped"
             /\ v.outcome = "skipped" =>
                   /\ UseKey(v) \in DOMAIN v.seen
                   /\ v.seen[UseKey(v)] \in {"False", None}

C16_Witness ==
    /\ pipe.phase = "done"
    /\ pipe.provider = EmptyDict
    /\ pipe.visits[1].outcome = "applied"
    /\ pipe.visits[2].outcome = "applied"
    /\ pipe.visits[3].outcome = "skipped"

\* C17: each unit is tested against the call's settings as merged so far, in
\* each phase: once an applied unit's update_settings has set use_<X> to false,
\* and until another one sets it to a true value, unit X is skipped, later in the
\* request phase and in the response phase.
C17_SwitchedOffMidCall ==
    pipe.phase # "none" =>
       \A k, m \in 1..Len(pipe.visits) :
          LET v == pipe.visits[k]
              x == pipe.visits[m]
          IN (/\ k < m
              /\ v.outcome = "applied"
              /\ Hook(v) # <<>>
              /\ UseKey(x) \in DOMAIN Hook(v)[1]
              /\ Hook(v)[1][UseKey(x)] = "False"
              /\ \A j \in (k + 1)..(m - 1) :
                    ~(/\ pipe.visits[j].outcome = "applied"
                      /\ Hook(pipe.visits[j]) # <<>>
                      /\ UseKey(x) \in DOMAIN Hook(pipe.visits[j])[1]))
             => x.outcome = "skipped"

C17_Witness ==
    /\ pipe.phase = "done"
    /\ pipe.provider = get_module_settings
    /\ pipe.modules[1].update_settings = <<OneKey(get_setting_name(Name(2)), "False")>>
    /\ pipe.modules[2].update_settings = <<>>
    /\ [k \in 1..4 |-> pipe.visits[k].outcome] = <<"applied", "skipped", "applied", "skipped">>

\* C18: when a unit raises in the request phase the upstream call is never
\* made, the call's record, while in the store, is error with the raised
\* error's message, and the caller gets that message; when a unit raises in
\* the response phase the record is error and was never completed.
C18_UnitFailure ==
    \A h \in Failed("unit raised") :
       /\ Count(hloc[h].trail, "response_phase") = 0 => Count(hloc[h].trail, "upstream") = 0
       /\ Count(hloc[h].trail, "complete") = 0
       /\ reply[h].code = 500
       /\ reply[h].body = hloc[h].error
       /\ \A i \in 1..Len(records) :
            records[i].id = RequestId(h) =>
               /\ records[i].status = "error"
               /\ records[i].error = reply[h].body
               /\ records[i].original_response = None
               /\ records[i].processed_response = None

\* the violations of C18 are the calls whose error_request raised from emit
C18_ButForTheSink ==
    \A h \in Failed("unit raised") :
       /\ Count(hloc[h].trail, "response_phase") = 0 => Count(hloc[h].trail, "upstream") = 0
       /\ Count(hloc[h].trail, "complete") = 0
       /\ reply[h].code = 500
       /\ reply[h].body \in {hloc[h].error, "unhandled"}
       /\ \A i \in 1..Len(records) :
            records[i].id = RequestId(h) =>
               /\ records[i].status = "error"
               /\ records[i].error = hloc[h].error
               /\ records[i].original_response = None
               /\ records[i].processed_response = None

\* a unit that raises ends the phase: it is the last unit visited
C18_RaiseEndsThePhase ==
    pipe.phase # "none" =>
       \A k \in 1..Len(pipe.visits) :
          pipe.visits[k].outcome = "raised" => (k = Len(pipe.visits) /\ pipe.phase = "failed")

Before(trail, a, b) ==
    \A j, k \in 1..Len(trail) : (trail[j] = b /\ trail[k] = a) => k < j
IsPrefix(p, q) == Len(p) <= Len(q) /\ p = SubSeq(q, 1, Len(p))
Bookkeeping(step) == step \in {"fail", "reply"}
Work(step) == ~Bookkeeping(step)

StepsInOrder == <<"start", "request_phase", "update", "upstream", "response_phase", "complete">>

C20_StreamLeftPending ==
    \A h \in Handlers :
       hloc[h].stream =>
          /\ hpc[h] \in {"streaming", "relay", "stream_ended", "stream_raised", "stream_closed"}
          /\ hloc[h].response_data = None
          /\ Count(hloc[h].trail, "response_phase") = 0
          /\ Count(hloc[h].trail, "complete") = 0
          /\ Count(hloc[h].trail, "fail") = 0
          /\ ret[h].op = "idle"
          /\ \A i \in 1..Len(records) :
               records[i].id = RequestId(h) =>
                  /\ records[i].status = "pending"
                  /\ records[i].original_response = None
                  /\ records[i].processed_response = None
                  /\ records[i].error = None
                  /\ records[i].duration_ms = <<>>

C20_Witness ==
    /\ hpc["h1"] = "stream_raised"
    /\ Len(reply["h1"].chunks) = 1
    /\ hpc["h2"] = "stream_closed"
    /\ Len(records) = 2
    /\ \A i \in 1..2 : records[i].status = "pending"

C20_WitnessEnded ==
    /\ hpc["h1"] = "stream_ended"
    /\ Len(reply["h1"].chunks) = MaxChunks + 1
    /\ Present(RequestId("h1"))

\* C22: the upstream create call is made, and the stream is iterated, by a
\* handler that is inside no tracker operation and does not own the tracker's
\* lock.
C22_UpstreamOutsideLock ==
    \A h \in Handlers :
       hpc[h] \in {"upstream", "streaming", "relay"} =>
          (lock.owner # h /\ ret[h].op = "idle")

C22_Witness ==
    /\ hpc["h1"] = "relay"
    /\ Len(reply["h1"].chunks) = 1
    /\ hpc["h2"] = "upstream"
    /\ lock.owner = Client

\* C23: the sink's emit, which is network I/O, is never called inside the
\* critical section: no step in which the sink receives an event is the body
\* of a `with self.lock:` block.
C23_NoEmitUnderLock == [][events' # events => lock'.owner = NoThread]_vars

\* C27: create is called at most once per call; after it has raised, the next
\* thing the handler does is error_request, which leaves the call's record,
\* while in the store, with status error.
C27_NoRetry ==
    \A h \in Handlers :
       LET trail == hloc[h].trail
       IN /\ Count(trail, "upstream") <= 1
          /\ hloc[h].error = "upstream failed" =>
                /\ hpc[h] \in {"except", "except_return", "done"}
                /\ \E k \in 1..Len(trail) :
                      /\ trail[k] = "upstream"
                      /\ SubSeq(trail, k + 1, Len(trail)) \in {<<>>, <<"fail">>, <<"fail", "reply">>}
                /\ hpc[h] # "except" =>
                      \A i \in 1..Len(records) :
                         records[i].id = RequestId(h) => records[i].status = "error"

C27_Witness ==
    /\ hpc["h1"] = "done"
    /\ hloc["h1"].error = "upstream failed"
    /\ Present(RequestId("h1"))
    /\ hpc["h2"] = "done"
    /\ reply["h2"].code = 200

\* C28: get_records(limit) returns the first min(limit, size) records, front
\* first, for every limit given, 0 included; without a limit it returns all.
C28_Truncated ==
    \A t \in Threads :
       ret[t].op = "get_records" =>
          LET limit == ret[t].value[1]
              n == IF limit = NoLimit \/ limit[1] > Len(records) THEN Len(records) ELSE limit[1]
          IN ret[t].value[2] = [k \in 1..n |-> to_dict(records[k])]

\* C29: the update after the request phase writes processed_request on the
\* call's record when it is in the store and pending, changes nothing else,
\* and goes on without an error when the record is no longer there.
C29_UpdateStep ==
    \A h \in Handlers :
       (hpc[h] = "scan" /\ hpc'[h] # "scan") =>
          /\ hpc'[h] = "upstream"
          /\ LET i == _find_record(RequestId(h))
             IN IF i # 0 /\ records[i].status = "pending"
                THEN records' = [records EXCEPT ![i].processed_request = hloc[h].request_data]
                ELSE records' = records

C29_SilentUpdate == [][C29_UpdateStep]_vars

\* apart from the scan that raises, the update does what C29 says
C29_ButForTheScan ==
    [][\A h \in Handlers :
          (hpc[h] = "scan" /\ hpc'[h] # "scan") =>
             IF hpc'[h] = "except"
             THEN iterDirty[h] /\ records' = records
             ELSE C29_UpdateStep]_vars

\* C30: original_request of a record never changes, and original_response,
\* processed_response, duration_ms and error, once set, keep their value.
C30_AppendOnly ==
    [][\A i \in 1..Len(records), j \in 1..Len(records') :
          records[i].oid = records'[j].oid =>
             /\ records'[j].original_request = records[i].original_request
             /\ records[i].original_response # None =>
                   records'[j].original_response = records[i].original_response
             /\ records[i].processed_response # None =>
                   records'[j].processed_response = records[i].processed_response
             /\ records[i].duration_ms # <<>> =>
                   records'[j].duration_ms = records[i].duration_ms
             /\ records[i].error # None => records'[j].error = records[i].error]_vars

Relayed == IF gen.pc = "yield" THEN gen.pulled - 1 ELSE gen.pulled

C21_RelayedInOrder ==
    gen.pc # "none" =>
       /\ gen.pulled <= Len(gen.upstream)
       /\ \A k \in 1..Relayed : gen.out[k] = <<"data: ", <<"json", gen.upstream[k]>>, "\n\n">>
       /\ IF gen.pc = "finished"
          THEN /\ gen.pulled = Len(gen.upstream)
               /\ Len(gen.out) = Relayed + 1
               /\ gen.out[Len(gen.out)] = <<"data: ", "[DONE]", "\n\n">>
          ELSE Len(gen.out) = Relayed

C21_Witness ==
    /\ gen.pc = "finished"
    /\ gen.upstream = <<"c2", "c1">>
    /\ Len(gen.out) = 3

\* the objects a call's handler and the units can still change
Working(c) ==
    {mem.call[c].json, mem.call[c].original_request, mem.call[c].request_data,
     mem.call[c].original_response, mem.call[c].response_data, mem.call[c].settings}
StoredRefs(c) ==
    {mem.rec[c].original_request, mem.rec[c].processed_request,
     mem.rec[c].original_response, mem.rec[c].processed_response} \ {NoRef}

C26_SnapshotCallLocal ==
    mem.config # NoRef =>
       /\ mem.heap[mem.config] = IF mem.saves = 0 THEN DefaultSettings ELSE SavedSettings
       /\ \A c \in Calls :
            LET f == mem.call[c]
            IN f.settings # NoRef =>
                  /\ f.settings # mem.config
                  /\ \A k \in Calls \ {c} : f.settings # mem.call[k].settings
                  /\ DOMAIN mem.heap[f.settings] =
                        DOMAIN f.fetched \cup (IF f.merges > 0 THEN {"merged_by"} ELSE {})
                  /\ \A key \in DOMAIN mem.heap[f.settings] :
                        mem.heap[f.settings][key] =
                           IF key = "merged_by" THEN c ELSE f.fetched[key]

C26_Witness ==
    /\ mem.config # NoRef
    /\ mem.saves = 1
    /\ mem.call["k1"].fetched = DefaultSettings
    /\ mem.call["k1"].merges = 2
    /\ mem.call["k1"].pc = "complete"
    /\ mem.call["k2"].fetched = SavedSettings
    /\ mem.call["k2"].merges = 1
    /\ mem.call["k2"].pc = "update"

UnitDone(module, phase) == unit.pc = "done" /\ unit.module = module /\ unit.phase = phase
TextsOf(messages) ==
    {messages[i].content[1] : i \in {j \in 1..Len(messages) : messages[j].content # <<>>}}

\* C31: after the content filter's request phase no message text contains a
\* banned word in any letter-case, and its response phase returns the response
\* as it was.
C31_NoBannedWordLeft ==
    /\ UnitDone("content_moderation", "request") =>
          \A text \in TextsOf(unit.output[1].messages) :
             \A k \in 1..Len(banned_words) : ~Contains(lower(text), banned_words[k])
    /\ UnitDone("content_moderation", "response") => unit.output[1] = unit.input

\* C31, what the filter does: messages stay in number and order, an occurrence
\* written in lower case is replaced by the marker, and a text in which no
\* banned word occurs in any case is left as it was.
C31_ButForTheCase ==
    UnitDone("content_moderation", "request") =>
       LET ins == unit.input.messages
           outs == unit.output[1].messages
       IN /\ Len(outs) = Len(ins)
          /\ \A text \in TextsOf(outs) :
                \A k \in 1..Len(banned_words) : ~Contains(text, banned_words[k])
          /\ \A i \in 1..Len(ins) :
                (ins[i].content = <<>>
                   \/ \A k \in 1..Len(banned_words) :
                         ~Contains(lower(ins[i].content[1]), banned_words[k]))
                => outs[i] = ins[i]

LastUser(messages) ==
    {i \in 1..Len(messages) :
        /\ messages[i].role = <<"user">>
        /\ \A j \in (i + 1)..Len(messages) : messages[j].role # <<"user">>}
Written(content) ==
    IF content = <<>> THEN <<>>
    ELSE IF content[1] = NoneValue THEN <<"N", "o", "n", "e">> ELSE content[1]

\* C32: the persona unit's request phase changes one message, the last whose
\* role is user, whose content becomes "Respond like a pirate. " followed by
\* the content it had (nothing for a message without content), and changes
\* nothing when there is no user message or no message list; its response
\* phase appends the marker to the content of every choice's message that has
\* one and changes nothing else.
C32_Persona ==
    /\ UnitDone("pirate_mode", "request") =>
          IF unit.input.messages = <<>> THEN unit.output[1] = unit.input
          ELSE LET ins == unit.input.messages[1]
                   outs == unit.output[1].messages[1]
               IN /\ Len(outs) = Len(ins)
                  /\ \A i \in 1..Len(ins) :
                        IF i \in LastUser(ins)
                        THEN /\ outs[i].role = ins[i].role
                             /\ outs[i].content =
                                   <<<<"Respond like a pirate. ">> \o Written(ins[i].content)>>
                        ELSE outs[i] = ins[i]
    /\ UnitDone("pirate_mode", "response") =>
          IF unit.input.choices = <<>> THEN unit.output[1] = unit.input
          ELSE LET ins == unit.input.choices[1]
                   outs == unit.output[1].choices[1]
               IN /\ Len(outs) = Len(ins)
                  /\ \A i \in 1..Len(ins) :
                        IF ins[i].message # <<>> /\ ins[i].message[1].content # <<>>
                        THEN outs[i].message[1].content =
                                <<Written(ins[i].message[1].content)
                                  \o <<"\n\n[Told to respond like a pirate]">>>>
                        ELSE outs[i] = ins[i]

C32_Witness ==
    /\ UnitDone("pirate_mode", "request")
    /\ unit.input.messages = <<<<[role |-> <<"user">>, content |-> <<<<"H", "i">>>>],
                                [role |-> <<"user">>, content |-> <<<<"H", "i">>>>]>>>>
    /\ unit.output[1].messages[1][1] = unit.input.messages[1][1]
    /\ unit.output[1].messages[1][2].content = <<<<"Respond like a pirate. ", "H", "i">>>>

C32_WitnessResponse ==
    /\ UnitDone("pirate_mode", "response")
    /\ unit.input.choices # <<>>
    /\ Len(unit.input.choices[1]) = 2
    /\ \A i \in 1..2 :
          /\ unit.input.choices[1][i].message = <<[content |-> <<<<"A", "y", "e">>>>]>>
          /\ unit.output[1].choices[1][i].message[1].content =
                <<<<"A", "y", "e", "\n\n[Told to respond like a pirate]">>>>

OnlyDigits(text) == text # <<>> /\ \A i \in 1..Len(text) : text[i] \in {"1", "2"}
ParsesAsFloat(text) ==
    /\ \E i \in 1..Len(text) : text[i] \in {"1", "2"}
    /\ \A i \in 1..Len(text) : text[i] \in {"1", "2", "."}
    /\ \A i, j \in 1..Len(text) : (text[i] = "." /\ text[j] = ".") => i = j
Configured(value) == IF value = <<>> THEN <<>> ELSE value[1]

\* C33: the request-shaping unit writes temperature exactly when
\* temperature_override is a non-empty string that float() parses, and
\* max_tokens exactly when max_tokens_limit is a non-empty string that int()
\* parses, with the parsed value; otherwise the request keeps the value it had
\* (or the absence of one).  No override makes the unit raise: the only
\* exception is the KeyError of a system message without content under a
\* non-empty system_prompt_prefix.
C33_Overrides ==
    UnitDone("response_filtering", "request") =>
       LET out == unit.output[1]
           temp == Configured(unit.settings.temperature_override)
           limit == Configured(unit.settings.max_tokens_limit)
       IN /\ out.outcome = "KeyError" <=>
                /\ Configured(unit.settings.system_prompt_prefix) # <<>>
                /\ \E i \in 1..Len(unit.input.messages) :
                      /\ unit.input.messages[i].role = <<"system">>
                      /\ unit.input.messages[i].content = <<>>
          /\ out.outcome = "returned" =>
                /\ IF ParsesAsFloat(temp)
                   THEN /\ out.data.temperature # <<>>
                        /\ out.data.temperature = float(temp)
                   ELSE out.data.temperature = unit.input.temperature
                /\ IF OnlyDigits(limit)
                   THEN /\ out.data.max_tokens # <<>>
                        /\ out.data.max_tokens = int(limit)
                   ELSE out.data.max_tokens = unit.input.max_tokens

C33_Witness ==
    /\ UnitDone("response_filtering", "request")
    /\ unit.settings.temperature_override = <<<<"1", "x">>>>
    /\ unit.settings.max_tokens_limit = <<<<"1", "1">>>>
    /\ unit.input.temperature = <<[digits |-> 7, places |-> 1]>>
    /\ unit.input.max_tokens = <<100>>
    /\ unit.output[1].outcome = "returned"
    /\ unit.output[1].data.temperature = <<[digits |-> 7, places |-> 1]>>
    /\ unit.output[1].data.max_tokens = <<11>>

ResponseVisits == {k \in 1..Len(pipe.visits) : pipe.visits[k].phase = "response"}

\* C34: a unit is visited in the response phase only after every unit has been
\* visited, without raising, in the request phase and the upstream step has
\* taken the request phase's payload; the first response visit sees the
\* settings the request phase ended with, every merge included, each later one
\* the settings the visit before it left, and a unit is skipped in the
\* response phase exactly when those settings switch it off.
C34_ResponseAfterRequest ==
    pipe.phase # "none" =>
       \A k \in ResponseVisits :
          LET v == pipe.visits[k]
              n == Len(pipe.modules)
          IN /\ k > n
             /\ pipe.phase \in {"response", "done", "failed"}
             /\ \A j \in 1..n : /\ pipe.visits[j].phase = "request"
                                /\ pipe.visits[j].i = j
                                /\ pipe.visits[j].outcome # "raised"
             /\ n > 0 => pipe.request_data = pipe.visits[n].out
             /\ v.i = k - n
             /\ v.seen = IF k = n + 1
                         THEN (IF n = 0 THEN pipe.provider ELSE pipe.visits[n].after)
                         ELSE pipe.visits[k - 1].after
             /\ (v.outcome = "skipped") <=> ~On(v.seen, UseKey(v))

C34_Witness ==
    /\ pipe.phase = "done"
    /\ Len(pipe.modules) = 2
    /\ Len(pipe.visits) = 4
    /\ pipe.visits[1].outcome = "applied"
    /\ pipe.visits[2].outcome = "applied"
    /\ pipe.visits[2].after # pipe.provider
    /\ pipe.visits[3].phase = "response"
    /\ pipe.visits[3].seen = pipe.visits[2].after
    /\ pipe.visits[3].outcome = "skipped"
    /\ On(pipe.provider, UseKey(pipe.visits[3]))

EventOf(op) ==
    IF op = "start_request" THEN "request_started"
    ELSE IF op = "complete_request" THEN "request_completed" ELSE "request_error"
StatusOf(type) ==
    IF type = "request_started" THEN "pending"
    ELSE IF type = "request_completed" THEN "completed" ELSE "error"
Lifecycle == {"request_started", "request_completed", "request_error"}
\* the emit of the call's request_started raised: the call went from
\* start_request straight to its except block
StartEmitRaised(id) ==
    \E h \in Handlers :
       /\ RequestId(h) = id
       /\ Len(hloc[h].trail) >= 2
       /\ hloc[h].trail[1] = "start" /\ hloc[h].trail[2] = "fail"

\* C35: the sink receives the events in the order of the store's changes: an
\* event carries the status its operation has just written; a
\* request_completed or request_error of an id comes after the
\* request_started of that id (unless the emit of that request_started
\* raised, and then none comes at all), no request_started after them; and
\* while the thread that made the change is still inside its critical section
\* the last event received is the record exactly as the store holds it.
C35_EventsFollowMutations ==
    /\ \A k \in 1..Len(events) :
          LET e == events[k]
          IN e.type \in Lifecycle =>
                /\ e.data.status = StatusOf(e.type)
                /\ \A j \in 1..(k - 1) : events[j].timestamp <= e.timestamp
                /\ IF e.type = "request_started"
                   THEN \A j \in 1..(k - 1) :
                           events[j].type \in Lifecycle => events[j].data.id # e.data.id
                   ELSE IF StartEmitRaised(e.data.id)
                        THEN \A j \in 1..(k - 1) :
                                events[j].type \in Lifecycle => events[j].data.id # e.data.id
                        ELSE \E j \in 1..(k - 1) :
                                /\ events[j].type = "request_started"
                                /\ events[j].data.id = e.data.id
    /\ \A h \in Handlers :
          (/\ ret[h].op \in {"start_request", "complete_request", "error_request"}
           /\ ret[h].outcome = "returned"
           /\ \E i \in 1..Len(records) : records[i].id = RequestId(h))
          => /\ lock.owner = h
             /\ events # <<>>
             /\ events[Len(events)].type = EventOf(ret[h].op)
             /\ \E i \in 1..Len(records) :
                   /\ records[i].id = RequestId(h)
                   /\ events[Len(events)].data = to_dict(records[i])

C35_Witness ==
    /\ Len(events) = 4
    /\ events[1].type = "request_started" /\ events[1].data.id = "h1"
    /\ events[2].type = "request_started" /\ events[2].data.id = "h2"
    /\ events[3].type = "request_completed" /\ events[3].data.id = "h2"
    /\ events[4].type = "request_error" /\ events[4].data.id = "h1"
    /\ ret["h1"].op = "error_request"
    /\ lock.owner = "h1"

InsideTracker(t) == ret[t].op # "idle"
AtReturn(h) == hpc[h] \in {"start_return", "complete_return", "except_return"}

\* C36: the lock is held by a thread exactly while that thread is inside a
\* tracker operation, once (no operation takes it a second time), and a
\* handler that holds it is at the end of the `with` block, which it leaves
\* without waiting for anything: after an operation that returned and after
\* one whose emit raised alike, the lock is free for the next thread.
C36_LockReleased ==
    /\ lock.count = IF lock.owner = NoThread THEN 0 ELSE 1
    /\ \A t \in Threads : (lock.owner = t) <=> InsideTracker(t)
    /\ \A h \in Handlers : lock.owner = h => AtReturn(h)
    /\ \A h \in Handlers : hpc[h] \in {"except", "done"} => ~InsideTracker(h) /\ lock.owner # h

C36_Witness ==
    /\ hpc["h1"] = "except"
    /\ hloc["h1"].error = "emit failed"
    /\ hloc["h1"].trail = <<"start">>
    /\ lock.owner = "h2"
    /\ ret["h2"].op = "start_request"

\* the call's request phase ended with a unit raising
RequestPhaseRaised(h) ==
    /\ hloc[h].error = "unit raised"
    /\ Len(hloc[h].trail) >= 2
    /\ hloc[h].trail[2] = "request_phase"
    /\ Len(hloc[h].trail) >= 3 => hloc[h].trail[3] = "fail"

\* C38: once a unit has raised in the request phase of a call, the call's
\* record, as long as the store holds it, has the processed_request it was
\* started with, equal to its original_request, whatever the units had done to
\* the working payload before the one that raised.
C38_PartialNeverWritten ==
    \A h \in Handlers :
       RequestPhaseRaised(h) =>
          \A i \in 1..Len(records) :
             records[i].id = RequestId(h) =>
                /\ records[i].processed_request = records[i].original_request
                /\ records[i].original_request \in Requests

C38_Witness ==
    /\ RequestPhaseRaised("h1")
    /\ hloc["h1"].request_data = "q1 partial"
    /\ hpc["h1"] = "done"
    /\ \E i \in 1..Len(records) :
          /\ records[i].id = "h1"
          /\ records[i].status = "error"
          /\ records[i].error = "unit raised"
          /\ records[i].processed_request = "q1"

FieldsMatchStatus(r) ==
    /\ r.status \in {"pending", "completed", "error"}
    /\ r.status = "pending" =>
          /\ r.duration_ms = <<>> /\ r.error = None
          /\ r.original_response = None /\ r.processed_response = None
    /\ r.status = "completed" => r.duration_ms # <<>> /\ r.error = None
    /\ r.status = "error" => r.duration_ms # <<>> /\ r.error # None

\* C39: while the handlers of app.py and the monitor's clear run, every record
\* of the store has the fields of its status: a pending one no duration, error
\* or response; a completed one a duration and no error; an error one an error
\* and a duration.
C39_FieldsMatchStatus == \A i \in 1..Len(records) : FieldsMatchStatus(records[i])

C39_Witness ==
    /\ Len(records) = 2
    /\ records[1].id = "h2" /\ records[1].status = "pending"
    /\ records[2].id = "h1" /\ records[2].status = "error"
    /\ records[2].error = "emit failed"
    /\ records[2].original_response # None
    /\ hpc["h1"] = "done"

Terminal(h) ==
    \E i \in 1..Len(records) :
       records[i].id = RequestId(h) /\ records[i].status \in {"completed", "error"}
Gone(h) == \A i \in 1..Len(records) : records[i].id # RequestId(h)

\* C37: a call whose start_request has returned and that turns out not to be
\* a streaming one comes to a state where its record, unless evicted or
\* cleared, has the status completed or error: by complete_request when
\* nothing raises, by error_request when a unit, the unlocked update or the
\* upstream call raises.
C37_EventuallyTerminal ==
    \A h \in Handlers :
       (hpc[h] = "request_phase") ~> (hloc[h].stream \/ Terminal(h) \/ Gone(h))

C37_Witness ==
    /\ hpc["h1"] = "done"
    /\ ~hloc["h1"].stream
    /\ hloc["h1"].error = "upstream failed"
    /\ \E i \in 1..Len(records) : records[i].id = "h1" /\ records[i].status = "error"
    /\ hpc["h2"] = "done"
    /\ ~hloc["h2"].stream
    /\ \E i \in 1..Len(records) : records[i].id = "h2" /\ records[i].status = "completed"

====
